---------------------------- MODULE Spec2Model ----------------------------
(***************************************************************************)
(* Portfolio simulator, risk engine and trade simulator of ermian-quant.   *)
(*                                                                         *)
(* Numbers.  Prices are integer ticks.  Money, sizes and risk fractions    *)
(* are Python floats in the source; here they are exact rationals          *)
(* <<numerator, denominator>> in lowest terms with a positive denominator, *)
(* so every comparison is the comparison of the real numbers the floats    *)
(* stand for.                                                              *)
(***************************************************************************)
EXTENDS Integers, Sequences, FiniteSets, TLC

---------------------------------------------------------------------------
(* Rational arithmetic (the float operators +, -, *, /, <, <=, abs). *)

Abs(x) == IF x < 0 THEN -x ELSE x

RECURSIVE GCD(_, _)
GCD(a, b) == IF b = 0 THEN a ELSE GCD(b, a % b)

LCM(a, b) == (a \div GCD(a, b)) * b

Norm(n, d) ==
    LET g == GCD(Abs(n), Abs(d))
        s == IF d < 0 THEN -1 ELSE 1
    IN  <<(s * n) \div g, (s * d) \div g>>

R(i) == <<i, 1>>

RZero == R(0)

RAdd(a, b) ==
    LET l == LCM(a[2], b[2])
    IN  Norm(a[1] * (l \div a[2]) + b[1] * (l \div b[2]), l)

RNeg(a) == <<-a[1], a[2]>>

RSub(a, b) == RAdd(a, RNeg(b))

RMul(a, b) ==
    LET g1 == GCD(Abs(a[1]), b[2])
        g2 == GCD(Abs(b[1]), a[2])
    IN  Norm((a[1] \div g1) * (b[1] \div g2), (a[2] \div g2) * (b[2] \div g1))

\* a / b for b # 0 (every division of the source is guarded by its caller)
RDiv(a, b) == RMul(a, Norm(b[2], b[1]))

RLt(a, b) ==
    LET l == LCM(a[2], b[2])
    IN  a[1] * (l \div a[2]) < b[1] * (l \div b[2])

RLe(a, b) == ~RLt(b, a)

RGt(a, b) == RLt(b, a)

RGe(a, b) == ~RLt(a, b)

RAbs(a) == <<Abs(a[1]), a[2]>>

---------------------------------------------------------------------------
(* dict.get(key, default) *)

Get(d, key, default) == IF key \in DOMAIN d THEN d[key] ELSE default

\* d[key] = value on a dict that may or may not hold key
Put(d, key, value) ==
    [k \in (DOMAIN d) \cup {key} |-> IF k = key THEN value ELSE d[k]]

---------------------------------------------------------------------------
(* Risk engine: src/src/ils/risk.py *)

\* the literal dict used when risk_config is None
DefaultRiskConfig ==
    [ base_risk_pct            |-> <<1, 100>>,
      tier_1_threshold         |-> 85,
      tier_2_threshold         |-> 65,
      tier_2_modifier          |-> <<1, 2>>,
      circuit_breaker_modifier |-> <<1, 2>> ]

\* Python's None, as a value Get can be asked about
None == [None |-> TRUE]

IsNone(x) == "None" \in DOMAIN x

\* the circuit breaker and the tier-2 modifier are left out
get_risk_percentage_nomod(tier_score, circuit_breaker_active, risk_config) ==
    LET cfg  == IF IsNone(risk_config) THEN DefaultRiskConfig ELSE risk_config
        base == Get(cfg, "base_risk_pct", <<1, 100>>)
        t1     == Get(cfg, "tier_1_threshold", 85)
        t2     == Get(cfg, "tier_2_threshold", 65)
    IN  IF tier_score >= t1 THEN base
        ELSE IF tier_score >= t2 THEN base
        ELSE RZero

get_risk_percentage(tier_score, circuit_breaker_active, risk_config) ==
    LET cfg  == IF IsNone(risk_config) THEN DefaultRiskConfig ELSE risk_config
        base == Get(cfg, "base_risk_pct", <<1, 100>>)
        base_unit ==
            IF circuit_breaker_active
            THEN RMul(base, Get(cfg, "circuit_breaker_modifier", <<1, 2>>))
            ELSE base
        t1     == Get(cfg, "tier_1_threshold", 85)
        t2     == Get(cfg, "tier_2_threshold", 65)
        t2_mod == Get(cfg, "tier_2_modifier", <<1, 2>>)
    IN  IF tier_score >= t1 THEN base_unit
        ELSE IF tier_score >= t2 THEN RMul(base_unit, t2_mod)
        ELSE RZero

calculate_position_size_mul(equity, risk_percentage, stop_loss_distance) ==
    IF RLe(stop_loss_distance, RZero)
    THEN RZero
    ELSE RMul(RMul(equity, risk_percentage), stop_loss_distance)

calculate_position_size(equity, risk_percentage, stop_loss_distance) ==
    IF RLe(stop_loss_distance, RZero)
    THEN RZero
    ELSE RDiv(RMul(equity, risk_percentage), stop_loss_distance)

---------------------------------------------------------------------------
(* Inputs of a run: instruments, bars, configuration *)

\* length of the master timeline
MaxTime == 3

\* number of candidates run_strategy emits over the whole run
MaxSignals == 2

\* config['instruments'], in their configured order
instruments == <<"EURUSD", "GBPUSD", "USDCHF">>

Symbols == {instruments[i] : i \in DOMAIN instruments}

Pct(n) == Norm(n, 100)

CORRELATION_MATRIX ==
    [ EURUSD |-> [GBPUSD |-> Pct(85), USDCHF |-> Pct(-90), AUDUSD |-> Pct(75),
                  XAUUSD |-> Pct(40)],
      GBPUSD |-> [EURUSD |-> Pct(85), USDCHF |-> Pct(-80), AUDUSD |-> Pct(70)],
      AUDUSD |-> [EURUSD |-> Pct(75), GBPUSD |-> Pct(70), XAUUSD |-> Pct(60)],
      USDCHF |-> [EURUSD |-> Pct(-90), GBPUSD |-> Pct(-80)],
      USDCAD |-> [AUDUSD |-> Pct(-50), XAUUSD |-> Pct(-30)],
      USDJPY |-> [EURJPY |-> Pct(60), GBPJPY |-> Pct(60)],
      EURJPY |-> [USDJPY |-> Pct(60), EURUSD |-> Pct(50)],
      GBPJPY |-> [USDJPY |-> Pct(60), GBPUSD |-> Pct(50)],
      XAUUSD |-> [AUDUSD |-> Pct(60), XAGUSD |-> Pct(85)],
      XAGUSD |-> [XAUUSD |-> Pct(85)] ]

\* config['backtest']['initial_balance'] of the run
initial_balance == R(1024)

\* config['risk'] of the run.  The keys it leaves out take the defaults of
\* the source.
RiskConfig ==
    [ base_risk_pct           |-> <<1, 4>>,
      max_correlated_exposure |-> <<3, 8>> ]

\* config['trading_limits'] of the run is one of these
LimitsConfigs ==
    { [max_concurrent_positions |-> 1, max_correlated_positions |-> 2],
      [max_concurrent_positions |-> 2, max_correlated_positions |-> 1],
      [max_concurrent_positions |-> 2, max_correlated_positions |-> 2] }

\* A bar of results_df: mid prices and ATR, in ticks
Row(l, h, c, atr) == [Low |-> l, High |-> h, Close |-> c, ATR |-> atr]

\* the bid/ask columns process_data adds (half spread of one tick)
WithBidAsk(r) ==
    r @@ [ Bid_Low |-> r.Low - 1, Bid_High |-> r.High - 1,
           Bid_Close |-> r.Close - 1,
           Ask_Low |-> r.Low + 1, Ask_High |-> r.High + 1,
           Ask_Close |-> r.Close + 1 ]

\* A bar that touches no level of the trades opened on the bars of SignalBars
NeutralRow == Row(31, 32, 32, 2)

\* Bars without a candidate: the neutral one and three that move through the
\* stop, the target or both of those trades
QuietRows == { NeutralRow, Row(16, 30, 16, 2), Row(33, 48, 48, 2),
              Row(16, 48, 32, 2) }

---------------------------------------------------------------------------
(* Signal engine, candidate execution levels: src/src/ils/strategy.py *)

\* 1.5 * ATR, exact on the even ATR values of the bars above
OnePointFiveAtr(atr_val) == (3 * atr_val) \div 2

\* the row of results_df that carries a signal, as a dict (row.to_dict() in
\* main, the row itself in run_backtest_engine)
StrategySignal(symbol, ts, row, direction, score, account_equity, risk_cfg) ==
    LET risk_pct    == get_risk_percentage(score, FALSE, risk_cfg)
        entry_price == row.Close
        stop_loss   == IF direction = "Long"
                       THEN row.Low - OnePointFiveAtr(row.ATR)
                       ELSE row.High + OnePointFiveAtr(row.ATR)
        dist        == Abs(entry_price - stop_loss)
        take_profit == IF direction = "Long"
                       THEN entry_price + 3 * dist
                       ELSE entry_price - 3 * dist
    IN  row @@
        [ Symbol      |-> symbol,
          Timestamp   |-> ts,
          Signal      |-> direction,
          Tier_Score  |-> score,
          Entry_Price |-> entry_price,
          Stop_Loss   |-> stop_loss,
          Take_Profit |-> take_profit,
          Risk_Units  |-> calculate_position_size(account_equity, risk_pct,
                                                  R(dist)) ]

---------------------------------------------------------------------------
(* State *)

VARIABLES
    pc,                     \* position of main's simulation loop
    current_time,           \* index of the time step in the master timeline
    current_prices,         \* symbol -> bar, for the symbols with a bar now
    bid_ask_columns,        \* whether the bars carry Bid_*/Ask_* columns
    all_signals,            \* candidates, sorted by timestamp (those of the
                            \* time steps reached so far)
    sig_idx,                \* candidates consumed (0-based index of the next)
    units,                  \* what size_candidate returned last
    limits_config,          \* pm.limits_config
    current_equity,         \* pm.current_equity
    high_water_mark,        \* pm.high_water_mark
    circuit_breaker_active, \* pm.circuit_breaker_active
    open_positions,         \* pm.open_positions
    closed_trades,          \* pm.closed_trades
    trade_id_counter,       \* pm.trade_id_counter
    bar_row,                \* run_backtest_engine: the row of the loop
    active_trades,          \* manager.active_trades
    tm_closed_trades,       \* manager.closed_trades
    tm_trade_id_counter,    \* manager.trade_id_counter
    args,                   \* arguments of a call
    result,                 \* its return value
    strategy_df,            \* run_strategy: df, a row per bar
    results,                \* run_strategy: results
    loop_i,                 \* run_strategy: the loop's i
    active_bull_obs,        \* run_strategy: the four registries
    active_bear_obs,
    active_bull_fvgs,
    active_bear_fvgs

pmVars == <<limits_config, current_equity, high_water_mark,
            circuit_breaker_active, open_positions, closed_trades,
            trade_id_counter>>

loopVars == <<pc, current_time, current_prices, bid_ask_columns, all_signals,
              sig_idx, units>>

tmVars == <<bar_row, active_trades, tm_closed_trades, tm_trade_id_counter>>

fnVars == <<args, result>>

registries == <<active_bull_obs, active_bear_obs, active_bull_fvgs,
                active_bear_fvgs>>

stVars == <<strategy_df, results, loop_i, registries>>

\* what main's loop leaves alone
otherVars == <<tmVars, fnVars, stVars>>

\* what the signal engine and the detectors leave alone
simVars == <<current_time, current_prices, bid_ask_columns, all_signals,
             sig_idx, units, pmVars, tmVars>>

vars == <<pmVars, loopVars, tmVars, fnVars, stVars>>

---------------------------------------------------------------------------
(* PortfolioManager: src/src/ils/portfolio.py *)

\* attributes read from the configuration in __init__
initial_equity == initial_balance

correlation_threshold == Get(limits_config, "correlation_threshold", Pct(75))

max_correlated_pos == Get(limits_config, "max_correlated_positions", 100)

max_concurrent_pos == Get(limits_config, "max_concurrent_positions", 100)

max_correlated_risk == Get(RiskConfig, "max_correlated_exposure", Pct(2))

circuit_breaker_dd == Get(RiskConfig, "circuit_breaker_drawdown", Pct(5))

\* pnl of one open trade inside update_mark_to_market's loop
MarkPnl(trade, prices) ==
    IF trade.symbol \notin DOMAIN prices
    THEN RZero
    ELSE LET p == prices[trade.symbol] IN
         IF trade.signal = "Long"
         THEN RMul(R(Get(p, "Bid_Close", p.Close) - trade.entry_price),
                   trade.units)
         ELSE RMul(R(trade.entry_price - Get(p, "Ask_Close", p.Close)),
                   trade.units)

RECURSIVE UnrealizedPnl(_, _)
UnrealizedPnl(positions, prices) ==
    IF positions = <<>> THEN RZero
    ELSE RAdd(MarkPnl(Head(positions), prices),
              UnrealizedPnl(Tail(positions), prices))

RECURSIVE RealizedPnl(_)
RealizedPnl(trades) ==
    IF trades = <<>> THEN RZero
    ELSE RAdd(Head(trades).pnl, RealizedPnl(Tail(trades)))

DrawdownPct(hwm, equity) ==
    IF RGt(hwm, RZero) THEN RDiv(RSub(hwm, equity), hwm) ELSE RZero

\* the breaker is also cleared when the drawdown falls below the threshold
update_mark_to_market_clear(prices) ==
    LET equity == RAdd(initial_equity,
                       RAdd(RealizedPnl(closed_trades),
                            UnrealizedPnl(open_positions, prices)))
        new_high == RGt(equity, high_water_mark)
        hwm == IF new_high THEN equity ELSE high_water_mark
    IN  [ current_equity  |-> equity,
          high_water_mark |-> hwm,
          circuit_breaker_active |->
              RGe(DrawdownPct(hwm, equity), circuit_breaker_dd) ]

\* the three fields update_mark_to_market assigns
update_mark_to_market(prices) ==
    LET equity == RAdd(initial_equity,
                       RAdd(RealizedPnl(closed_trades),
                            UnrealizedPnl(open_positions, prices)))
        new_high == RGt(equity, high_water_mark)
        hwm == IF new_high THEN equity ELSE high_water_mark
        breaker == IF new_high THEN FALSE ELSE circuit_breaker_active
    IN  [ current_equity  |-> equity,
          high_water_mark |-> hwm,
          circuit_breaker_active |->
              IF RGe(DrawdownPct(hwm, equity), circuit_breaker_dd)
              THEN TRUE ELSE breaker ]

\* is_correlated of check_correlation_constraint's loop body
is_correlated(trade, new_symbol, new_direction) ==
    IF trade.symbol = new_symbol
    THEN TRUE
    ELSE LET corr == Get(Get(CORRELATION_MATRIX, new_symbol, <<>>),
                         trade.symbol, RZero)
         IN  /\ RGe(RAbs(corr), correlation_threshold)
             /\ \/ new_direction = trade.signal /\ RGt(corr, RZero)
                \/ new_direction # trade.signal /\ RLt(corr, RZero)

Correlated(positions, new_symbol, new_direction) ==
    SelectSeq(positions, LAMBDA t : is_correlated(t, new_symbol, new_direction))

RECURSIVE SumRisk(_)
SumRisk(trades) ==
    IF trades = <<>> THEN RZero
    ELSE RAdd(Head(trades).risk_pct_account, SumRisk(Tail(trades)))

\* only the risk limit is checked
check_correlation_constraint_nocount(new_symbol, new_direction, new_risk_pct) ==
    LET corr == Correlated(open_positions, new_symbol, new_direction)
    IN  ~RGt(RAdd(SumRisk(corr), new_risk_pct), max_correlated_risk)

check_correlation_constraint(new_symbol, new_direction, new_risk_pct) ==
    LET corr == Correlated(open_positions, new_symbol, new_direction)
        current_correlated_risk == SumRisk(corr)
        correlated_count == Len(corr)
    IN  IF correlated_count >= max_correlated_pos THEN FALSE
        ELSE IF RGt(RAdd(current_correlated_risk, new_risk_pct),
                    max_correlated_risk) THEN FALSE
        ELSE TRUE

\* the limit is compared with > instead of >=
AtConcurrencyLimit_offbyone == Len(open_positions) > max_concurrent_pos

\* size_candidate's first check
AtConcurrencyLimit == Len(open_positions) >= max_concurrent_pos

\* size_candidate: the size it returns and the candidate dict as it leaves it
size_candidate(signal) ==
    LET risk_pct == get_risk_percentage(signal.Tier_Score,
                                        circuit_breaker_active, RiskConfig)
        dist == Abs(signal.Entry_Price - signal.Stop_Loss)
    IN  IF AtConcurrencyLimit
        THEN [units |-> RZero, signal |-> signal]
        ELSE IF RLe(risk_pct, RZero)
        THEN [units |-> RZero, signal |-> signal]
        ELSE IF ~check_correlation_constraint(signal.Symbol, signal.Signal,
                                              risk_pct)
        THEN [units |-> RZero, signal |-> signal]
        ELSE IF dist = 0
        THEN [units |-> RZero, signal |-> signal]
        ELSE [ units  |-> RDiv(RMul(current_equity, risk_pct), R(dist)),
               signal |-> Put(signal, "Risk_Pct_Account", risk_pct) ]

\* the trade execute_trade appends to open_positions
NewTrade(signal, size, timestamp, id) ==
    [ id               |-> id,
      symbol           |-> signal.Symbol,
      entry_time       |-> timestamp,
      signal           |-> signal.Signal,
      entry_price      |-> signal.Entry_Price,
      stop_loss        |-> signal.Stop_Loss,
      take_profit      |-> signal.Take_Profit,
      tier_score       |-> signal.Tier_Score,
      units            |-> size,
      risk_pct_account |-> Get(signal, "Risk_Pct_Account", RZero),
      pnl              |-> RZero,
      status           |-> "Open" ]

\* target checked before stop
exit_check_target_first(trade, bar) ==
    LET bid_low  == Get(bar, "Bid_Low", bar.Low)
        bid_high == Get(bar, "Bid_High", bar.High)
        ask_low  == Get(bar, "Ask_Low", bar.Low)
        ask_high == Get(bar, "Ask_High", bar.High)
        tp == IF trade.signal = "Long" THEN bid_high >= trade.take_profit
              ELSE ask_low <= trade.take_profit
        sl == IF trade.signal = "Long" THEN bid_low <= trade.stop_loss
              ELSE ask_high >= trade.stop_loss
    IN  IF tp THEN [sl_hit |-> FALSE, tp_hit |-> TRUE,
                    exit_price |-> trade.take_profit]
        ELSE IF sl THEN [sl_hit |-> TRUE, tp_hit |-> FALSE,
                         exit_price |-> trade.stop_loss]
        ELSE [sl_hit |-> FALSE, tp_hit |-> FALSE, exit_price |-> 0]

\* sl_hit, tp_hit, exit_price as process_market_update decides them for a trade
exit_check(trade, bar) ==
    LET bid_low  == Get(bar, "Bid_Low", bar.Low)
        bid_high == Get(bar, "Bid_High", bar.High)
        ask_low  == Get(bar, "Ask_Low", bar.Low)
        ask_high == Get(bar, "Ask_High", bar.High)
    IN  IF trade.signal = "Long"
        THEN IF bid_low <= trade.stop_loss
             THEN [sl_hit |-> TRUE, tp_hit |-> FALSE,
                   exit_price |-> trade.stop_loss]
             ELSE IF bid_high >= trade.take_profit
             THEN [sl_hit |-> FALSE, tp_hit |-> TRUE,
                   exit_price |-> trade.take_profit]
             ELSE [sl_hit |-> FALSE, tp_hit |-> FALSE, exit_price |-> 0]
        ELSE IF ask_high >= trade.stop_loss
             THEN [sl_hit |-> TRUE, tp_hit |-> FALSE,
                   exit_price |-> trade.stop_loss]
             ELSE IF ask_low <= trade.take_profit
             THEN [sl_hit |-> FALSE, tp_hit |-> TRUE,
                   exit_price |-> trade.take_profit]
             ELSE [sl_hit |-> FALSE, tp_hit |-> FALSE, exit_price |-> 0]

\* the exit is charged a spread of one tick
CloseTrade_spread(trade, exit_price, timestamp) ==
    LET pnl == IF trade.signal = "Long"
               THEN RMul(R(exit_price - 1 - trade.entry_price), trade.units)
               ELSE RMul(R(trade.entry_price - exit_price - 1), trade.units)
    IN  [k \in (DOMAIN trade) \cup {"exit_time", "exit_price", "result"} |->
            CASE k = "exit_time"  -> timestamp
              [] k = "exit_price" -> exit_price
              [] k = "status"     -> "Closed"
              [] k = "pnl"        -> pnl
              [] k = "result"     -> IF RGt(pnl, RZero) THEN "Win" ELSE "Loss"
              [] OTHER            -> trade[k]]

\* the trade as process_market_update appends it to closed_trades
CloseTrade(trade, exit_price, timestamp) ==
    LET pnl == IF trade.signal = "Long"
               THEN RMul(R(exit_price - trade.entry_price), trade.units)
               ELSE RMul(R(trade.entry_price - exit_price), trade.units)
    IN  [k \in (DOMAIN trade) \cup {"exit_time", "exit_price", "result"} |->
            CASE k = "exit_time"  -> timestamp
              [] k = "exit_price" -> exit_price
              [] k = "status"     -> "Closed"
              [] k = "pnl"        -> pnl
              [] k = "result"     -> IF RGt(pnl, RZero) THEN "Win" ELSE "Loss"
              [] OTHER            -> trade[k]]

\* the closed trade is left in the list
RemoveAt_kept(seq, i) == seq

\* list.pop(i)
RemoveAt(seq, i) == SubSeq(seq, 1, i - 1) \o SubSeq(seq, i + 1, Len(seq))

\* process_market_update's loop from index i down to the first position
RECURSIVE ProcessFrom(_, _, _, _, _)
ProcessFrom(i, positions, closed, timestamp, prices) ==
    IF i = 0
    THEN [open_positions |-> positions, closed_trades |-> closed]
    ELSE LET trade == positions[i] IN
         IF trade.symbol \notin DOMAIN prices
         THEN ProcessFrom(i - 1, positions, closed, timestamp, prices)
         ELSE LET x == exit_check(trade, prices[trade.symbol]) IN
              IF x.sl_hit \/ x.tp_hit
              THEN ProcessFrom(i - 1, RemoveAt(positions, i),
                               Append(closed,
                                      CloseTrade(trade, x.exit_price, timestamp)),
                               timestamp, prices)
              ELSE ProcessFrom(i - 1, positions, closed, timestamp, prices)

process_market_update(timestamp, prices) ==
    ProcessFrom(Len(open_positions), open_positions, closed_trades,
                timestamp, prices)

---------------------------------------------------------------------------
(* main's portfolio simulation loop: src/master_backtest.py *)

\* What the market data holds at one timestamp.  An instrument has a bar
\* there or not; a bar carries at most one candidate.  A bar of an instrument
\* that has no open trade and carries no candidate is read by no step of the
\* loop, so the snapshot holds such a bar only when it would otherwise be
\* empty (the timeline is the union of the instruments' timestamps).
OpenSymbols == {open_positions[i].symbol : i \in DOMAIN open_positions}

\* The bars that carry a candidate, with the direction and score run_strategy
\* gave it: both directions at both tiers, and one candidate on a flat bar
\* (its stop equals its entry)
SignalBars ==
    { [row |-> Row(31, 32, 32, 2), Signal |-> "Long",  Tier_Score |-> 90],
      [row |-> Row(31, 32, 32, 2), Signal |-> "Long",  Tier_Score |-> 70],
      [row |-> Row(31, 32, 31, 2), Signal |-> "Short", Tier_Score |-> 90],
      [row |-> Row(31, 32, 31, 2), Signal |-> "Short", Tier_Score |-> 70],
      [row |-> Row(32, 32, 32, 0), Signal |-> "Long",  Tier_Score |-> 90] }

Filler ==
    LET free == {i \in DOMAIN instruments : instruments[i] \notin OpenSymbols}
        i0 == CHOOSE i \in free : \A j \in free : i <= j
    IN  instruments[i0]

PriceRow(r) == IF bid_ask_columns THEN WithBidAsk(r) ELSE r

\* the candidates of timestamp ts, in the order main collects them
\* (instrument by instrument; the sort by timestamp is stable)
RECURSIVE SignalsAt(_, _, _)
SignalsAt(i, ts, sigs) ==
    IF i > Len(instruments) THEN <<>>
    ELSE LET sym == instruments[i] IN
         (IF sym \in DOMAIN sigs
          THEN <<StrategySignal(sym, ts, PriceRow(sigs[sym].row),
                                sigs[sym].Signal, sigs[sym].Tier_Score,
                                initial_balance, RiskConfig)>>
          ELSE <<>>) \o SignalsAt(i + 1, ts, sigs)

\* the candidates as the collection loop appends them: instrument by
\* instrument, each instrument's rows in index order
RECURSIVE Collected(_, _)
Collected(i, sigs) ==
    IF i > Len(instruments) THEN <<>>
    ELSE SelectSeq(sigs, LAMBDA c : c.Symbol = instruments[i])
         \o Collected(i + 1, sigs)

\* the list is left in collection order
sort_by_timestamp_omitted(sigs) == sigs

\* all_signals.sort(key=lambda x: x['Timestamp']): a stable sort
RECURSIVE sort_by_timestamp(_)
sort_by_timestamp(sigs) ==
    IF Len(sigs) <= 1 THEN sigs
    ELSE LET rest == sort_by_timestamp(Tail(sigs))
             x    == Head(sigs)
             before == SelectSeq(rest, LAMBDA c : c.Timestamp < x.Timestamp)
             after  == SelectSeq(rest, LAMBDA c : c.Timestamp >= x.Timestamp)
         IN  before \o <<x>> \o after

\* for current_time in all_indices: the price snapshot (step A)
Snapshot ==
    /\ pc = "snapshot"
    /\ current_time < MaxTime
    /\ \E withSignal \in SUBSET Symbols :
       \E withQuiet \in SUBSET (OpenSymbols \ withSignal) :
       \E sigs \in [withSignal -> SignalBars] :
       \E quiet \in [withQuiet -> QuietRows] :
          /\ Len(all_signals) + Cardinality(withSignal) <= MaxSignals
          /\ withSignal \cup withQuiet = {} => OpenSymbols # Symbols
          /\ current_time' = current_time + 1
          /\ current_prices' =
               IF withSignal \cup withQuiet = {}
               THEN [s \in {Filler} |-> PriceRow(NeutralRow)]
               ELSE [s \in withSignal \cup withQuiet |->
                        PriceRow(IF s \in withSignal THEN sigs[s].row
                                 ELSE quiet[s])]
          /\ all_signals' =
               sort_by_timestamp(
                 Collected(1, all_signals
                              \o SignalsAt(1, current_time + 1, sigs)))
    /\ pc' = "mtm"
    /\ UNCHANGED <<bid_ask_columns, sig_idx, units, pmVars, otherVars>>

\* pm.update_mark_to_market(current_prices) (step B)
MarkToMarket ==
    /\ pc = "mtm"
    /\ LET m == update_mark_to_market(current_prices) IN
          /\ current_equity' = m.current_equity
          /\ high_water_mark' = m.high_water_mark
          /\ circuit_breaker_active' = m.circuit_breaker_active
    /\ pc' = "exits"
    /\ UNCHANGED <<current_time, current_prices, bid_ask_columns, all_signals,
                   sig_idx, units, limits_config, open_positions,
                   closed_trades, trade_id_counter, otherVars>>

\* exits are left out of the step
Exits_skipped ==
    /\ pc = "exits"
    /\ pc' = "signals"
    /\ UNCHANGED <<current_time, current_prices, bid_ask_columns, all_signals,
                   sig_idx, units, limits_config, current_equity,
                   high_water_mark, circuit_breaker_active, open_positions,
                   closed_trades, trade_id_counter, otherVars>>

\* pm.process_market_update(current_time, current_prices) (step B)
Exits ==
    /\ pc = "exits"
    /\ LET x == process_market_update(current_time, current_prices) IN
          /\ open_positions' = x.open_positions
          /\ closed_trades' = x.closed_trades
    /\ pc' = "signals"
    /\ UNCHANGED <<current_time, current_prices, bid_ask_columns, all_signals,
                   sig_idx, units, limits_config, current_equity,
                   high_water_mark, circuit_breaker_active, trade_id_counter,
                   otherVars>>

\* the while condition of step C
MoreSignals ==
    /\ sig_idx < Len(all_signals)
    /\ all_signals[sig_idx + 1].Timestamp = current_time

\* every sized candidate is executed
Admitted_always(size) == TRUE

\* if units > 0
Admitted(size) == RGt(size, RZero)

\* one iteration of the while loop of step C: size the candidate and, when
\* its size is positive, execute it
ProcessSignal ==
    /\ pc = "signals"
    /\ MoreSignals
    /\ LET candidate == all_signals[sig_idx + 1]
           sized == size_candidate(candidate)
       IN  /\ sig_idx' = sig_idx + 1
           /\ units' = sized.units
           /\ all_signals' = [all_signals EXCEPT ![sig_idx + 1] = sized.signal]
           /\ IF Admitted(sized.units)
              THEN /\ trade_id_counter' = trade_id_counter + 1
                   /\ open_positions' =
                        Append(open_positions,
                               NewTrade(sized.signal, sized.units, current_time,
                                        trade_id_counter + 1))
              ELSE UNCHANGED <<trade_id_counter, open_positions>>
    /\ UNCHANGED <<pc, current_time, current_prices, bid_ask_columns,
                   limits_config, current_equity, high_water_mark,
                   circuit_breaker_active, closed_trades, otherVars>>

\* the while loop ends: on to the next time step
EndStep ==
    /\ pc = "signals"
    /\ ~MoreSignals
    /\ pc' = "snapshot"
    /\ UNCHANGED <<current_time, current_prices, bid_ask_columns, all_signals,
                   sig_idx, units, pmVars, otherVars>>

\* the for loop ends: "Simulation Complete"
Finish ==
    /\ pc = "snapshot"
    /\ current_time = MaxTime
    /\ pc' = "done"
    /\ UNCHANGED <<current_time, current_prices, bid_ask_columns, all_signals,
                   sig_idx, units, pmVars, otherVars>>

\* PortfolioManager.__init__ and the variables main sets before the loop
Init ==
    /\ pc = "snapshot"
    /\ current_time = 0
    /\ current_prices = <<>>
    /\ bid_ask_columns \in BOOLEAN
    /\ all_signals = <<>>
    /\ sig_idx = 0
    /\ units = RZero
    /\ limits_config \in LimitsConfigs
    /\ current_equity = initial_equity
    /\ high_water_mark = initial_equity
    /\ circuit_breaker_active = FALSE
    /\ open_positions = <<>>
    /\ closed_trades = <<>>
    /\ trade_id_counter = 0
    /\ bar_row = <<>>
    /\ active_trades = <<>>
    /\ tm_closed_trades = <<>>
    /\ tm_trade_id_counter = 0
    /\ args = <<>>
    /\ result = <<>>
    /\ strategy_df = <<>>
    /\ results = <<>>
    /\ loop_i = 0
    /\ active_bull_obs = <<>>
    /\ active_bear_obs = <<>>
    /\ active_bull_fvgs = <<>>
    /\ active_bear_fvgs = <<>>

Next ==
    \/ Snapshot
    \/ MarkToMarket
    \/ Exits
    \/ ProcessSignal
    \/ EndStep
    \/ Finish

Spec == Init /\ [][Next]_vars

---------------------------------------------------------------------------
(* TradeManager: src/src/ils/backtest.py *)

\* min_tick's default, 0.00001
DefaultMinTick == <<1, 100000>>

RMax(a, b) == IF RLt(a, b) THEN b ELSE a

calculate_slippage(atr, min_tick) ==
    IF atr > 0 THEN RMax(RMul(<<1, 10>>, R(atr)), min_tick) ELSE RZero

\* the trade add_trade appends to active_trades (the score breakdown columns,
\* which no step reads, are left out)
TMNewTrade(signal_row, id) ==
    LET direction == signal_row.Signal
        mid       == signal_row.Close
        atr       == Get(signal_row, "ATR", 0)
        ask       == Get(signal_row, "Ask_Close", mid)
        bid       == Get(signal_row, "Bid_Close", mid)
        slippage  == calculate_slippage(atr, DefaultMinTick)
        score     == Get(signal_row, "Tier_Score", 0)
    IN  [ id               |-> id,
          entry_time       |-> signal_row.name,
          signal           |-> direction,
          tier_type        |-> IF score >= 85 THEN "Tier 1"
                               ELSE IF score >= 65 THEN "Tier 2" ELSE "Unknown",
          tier_score       |-> score,
          entry_price      |-> IF direction = "Long"
                               THEN RAdd(R(ask), slippage)
                               ELSE RSub(R(bid), slippage),
          planned_entry    |-> mid,
          stop_loss        |-> signal_row.Stop_Loss,
          take_profit      |-> signal_row.Take_Profit,
          risk_units       |-> signal_row.Risk_Units,
          atr              |-> atr,
          status           |-> "Open",
          slippage_entry   |-> slippage,
          spread_cost_unit |-> ask - bid ]

\* target checked before stop
tm_exit_check_target_first(trade, row) ==
    LET bid_low  == Get(row, "Bid_Low", row.Low)
        bid_high == Get(row, "Bid_High", row.High)
        ask_low  == Get(row, "Ask_Low", row.Low)
        ask_high == Get(row, "Ask_High", row.High)
        slip     == calculate_slippage(Get(row, "ATR", trade.atr),
                                       DefaultMinTick)
        tp == IF trade.signal = "Long" THEN bid_high >= trade.take_profit
              ELSE ask_low <= trade.take_profit
        sl == IF trade.signal = "Long" THEN bid_low <= trade.stop_loss
              ELSE ask_high >= trade.stop_loss
    IN  IF tp THEN [sl_hit |-> FALSE, tp_hit |-> TRUE, slippage |-> RZero,
                    exit_price |-> R(trade.take_profit)]
        ELSE IF sl
        THEN [sl_hit |-> TRUE, tp_hit |-> FALSE, slippage |-> slip,
              exit_price |-> IF trade.signal = "Long"
                             THEN RSub(R(trade.stop_loss), slip)
                             ELSE RAdd(R(trade.stop_loss), slip)]
        ELSE [sl_hit |-> FALSE, tp_hit |-> FALSE, slippage |-> RZero,
              exit_price |-> RZero]

\* sl_hit, tp_hit, exit_price, slippage as update decides them for a trade
tm_exit_check(trade, row) ==
    LET bid_low  == Get(row, "Bid_Low", row.Low)
        bid_high == Get(row, "Bid_High", row.High)
        ask_low  == Get(row, "Ask_Low", row.Low)
        ask_high == Get(row, "Ask_High", row.High)
        atr      == Get(row, "ATR", trade.atr)
        slip     == calculate_slippage(atr, DefaultMinTick)
    IN  IF trade.signal = "Long"
        THEN IF bid_low <= trade.stop_loss
             THEN [sl_hit |-> TRUE, tp_hit |-> FALSE, slippage |-> slip,
                   exit_price |-> RSub(R(trade.stop_loss), slip)]
             ELSE IF bid_high >= trade.take_profit
             THEN [sl_hit |-> FALSE, tp_hit |-> TRUE, slippage |-> RZero,
                   exit_price |-> R(trade.take_profit)]
             ELSE [sl_hit |-> FALSE, tp_hit |-> FALSE, slippage |-> RZero,
                   exit_price |-> RZero]
        ELSE IF ask_high >= trade.stop_loss
             THEN [sl_hit |-> TRUE, tp_hit |-> FALSE, slippage |-> slip,
                   exit_price |-> RAdd(R(trade.stop_loss), slip)]
             ELSE IF ask_low <= trade.take_profit
             THEN [sl_hit |-> FALSE, tp_hit |-> TRUE, slippage |-> RZero,
                   exit_price |-> R(trade.take_profit)]
             ELSE [sl_hit |-> FALSE, tp_hit |-> FALSE, slippage |-> RZero,
                   exit_price |-> RZero]

\* the trade as update appends it to closed_trades
TMCloseTrade(trade, x, timestamp) ==
    LET gross_pnl == IF trade.signal = "Long"
                     THEN RMul(RSub(x.exit_price, trade.entry_price),
                               trade.risk_units)
                     ELSE RMul(RSub(trade.entry_price, x.exit_price),
                               trade.risk_units)
    IN  [k \in (DOMAIN trade) \cup {"exit_time", "exit_price", "result",
                                    "slippage_exit", "pnl", "slippage_cost"} |->
            CASE k = "exit_time"     -> timestamp
              [] k = "exit_price"    -> x.exit_price
              [] k = "result"        -> IF x.tp_hit THEN "Win" ELSE "Loss"
              [] k = "status"        -> "Closed"
              [] k = "slippage_exit" -> x.slippage
              [] k = "pnl"           -> gross_pnl
              [] k = "slippage_cost" ->
                    RMul(RAdd(trade.slippage_entry, x.slippage),
                         trade.risk_units)
              [] OTHER               -> trade[k]]

\* update's loop from index i down to the first active trade
RECURSIVE TMUpdateFrom(_, _, _, _)
TMUpdateFrom(i, active, closed, row) ==
    IF i = 0
    THEN [active_trades |-> active, closed_trades |-> closed]
    ELSE LET trade == active[i] IN
         IF row.name <= trade.entry_time
         THEN TMUpdateFrom(i - 1, active, closed, row)
         ELSE LET x == tm_exit_check(trade, row) IN
              IF x.sl_hit \/ x.tp_hit
              THEN TMUpdateFrom(i - 1, RemoveAt(active, i),
                                Append(closed, TMCloseTrade(trade, x, row.name)),
                                row)
              ELSE TMUpdateFrom(i - 1, active, closed, row)

tm_update(row) ==
    TMUpdateFrom(Len(active_trades), active_trades, tm_closed_trades, row)

---------------------------------------------------------------------------
(* The single-instrument simulation, run_backtest_engine in                *)
(* src/backtest_runner.py, with a PortfolioManager fed the same rows and   *)
(* the same candidates, so that the two exit rules meet the same trades.   *)

Instrument == instruments[1]

\* a row of results: the bar, its timestamp and the signal columns
ResultRows(ts) ==
    { PriceRow(r) @@ [name |-> ts, Signal |-> "None"] : r \in QuietRows }
    \cup
    { StrategySignal(Instrument, ts, PriceRow(b.row), b.Signal, b.Tier_Score,
                     initial_balance, <<>>) @@ [name |-> ts] : b \in SignalBars }

\* for timestamp, row in results.iterrows()
NextRow ==
    /\ pc = "row"
    /\ current_time < MaxTime
    /\ current_time' = current_time + 1
    /\ bar_row' \in ResultRows(current_time + 1)
    /\ current_prices' = [s \in {Instrument} |-> bar_row']
    /\ pc' = "tm_update"
    /\ UNCHANGED <<bid_ask_columns, all_signals, sig_idx, units, pmVars,
                   active_trades, tm_closed_trades, tm_trade_id_counter,
                   fnVars, stVars>>

\* manager.update(row)
TMUpdate ==
    /\ pc = "tm_update"
    /\ LET x == tm_update(bar_row) IN
          /\ active_trades' = x.active_trades
          /\ tm_closed_trades' = x.closed_trades
    /\ pc' = "pm_update"
    /\ UNCHANGED <<current_time, current_prices, bid_ask_columns, all_signals,
                   sig_idx, units, pmVars, bar_row, tm_trade_id_counter,
                   fnVars, stVars>>

\* pm.process_market_update on the same row
PMUpdate ==
    /\ pc = "pm_update"
    /\ LET x == process_market_update(current_time, current_prices) IN
          /\ open_positions' = x.open_positions
          /\ closed_trades' = x.closed_trades
    /\ pc' = "add"
    /\ UNCHANGED <<current_time, current_prices, bid_ask_columns, all_signals,
                   sig_idx, units, limits_config, current_equity,
                   high_water_mark, circuit_breaker_active, trade_id_counter,
                   tmVars, fnVars, stVars>>

\* if pd.notnull(row['Signal']): manager.add_trade(row); the portfolio
\* executes the same candidate at the size the strategy gave it
AddTrade ==
    /\ pc = "add"
    /\ IF bar_row.Signal # "None"
       THEN /\ tm_trade_id_counter' = tm_trade_id_counter + 1
            /\ active_trades' =
                 Append(active_trades,
                        TMNewTrade(bar_row, tm_trade_id_counter + 1))
            /\ IF RGt(bar_row.Risk_Units, RZero)
               THEN /\ trade_id_counter' = trade_id_counter + 1
                    /\ open_positions' =
                         Append(open_positions,
                                NewTrade(bar_row, bar_row.Risk_Units,
                                         current_time, trade_id_counter + 1))
               ELSE UNCHANGED <<trade_id_counter, open_positions>>
       ELSE UNCHANGED <<tm_trade_id_counter, active_trades, trade_id_counter,
                        open_positions>>
    /\ pc' = "row"
    /\ UNCHANGED <<current_time, current_prices, bid_ask_columns, all_signals,
                   sig_idx, units, limits_config, current_equity,
                   high_water_mark, circuit_breaker_active, closed_trades,
                   bar_row, tm_closed_trades, fnVars, stVars>>

InitSingle ==
    /\ pc = "row"
    /\ current_time = 0
    /\ current_prices = <<>>
    /\ bid_ask_columns \in BOOLEAN
    /\ all_signals = <<>>
    /\ sig_idx = 0
    /\ units = RZero
    /\ limits_config = <<>>
    /\ current_equity = initial_equity
    /\ high_water_mark = initial_equity
    /\ circuit_breaker_active = FALSE
    /\ open_positions = <<>>
    /\ closed_trades = <<>>
    /\ trade_id_counter = 0
    /\ bar_row = <<>>
    /\ active_trades = <<>>
    /\ tm_closed_trades = <<>>
    /\ tm_trade_id_counter = 0
    /\ args = <<>>
    /\ result = <<>>
    /\ strategy_df = <<>>
    /\ results = <<>>
    /\ loop_i = 0
    /\ active_bull_obs = <<>>
    /\ active_bear_obs = <<>>
    /\ active_bull_fvgs = <<>>
    /\ active_bear_fvgs = <<>>

NextSingle ==
    \/ NextRow
    \/ TMUpdate
    \/ PMUpdate
    \/ AddTrade

SpecSingle == InitSingle /\ [][NextSingle]_vars

---------------------------------------------------------------------------
(* The risk engine's two functions applied to drawn arguments *)

ScoreRange == 0 .. 100

RiskConfigArgs ==
    { None,
      <<>>,
      RiskConfig,
      [ base_risk_pct |-> <<1, 50>>, tier_1_threshold |-> 80,
        tier_2_threshold |-> 60, tier_2_modifier |-> <<1, 4>>,
        circuit_breaker_modifier |-> <<1, 3>> ] }

EquityArgs == { R(10000), R(1024), RZero, R(-64), <<5, 2>> }

RiskArgs == { <<1, 100>>, <<1, 200>>, <<1, 4>>, RZero }

StopDistanceArgs == { R(2), R(4), <<1, 2>>, RZero, R(-1), <<-1, 2>> }

RiskEngineCalls ==
    { [fn |-> "get_risk_percentage", tier_score |-> sc,
       circuit_breaker_active |-> cb, risk_config |-> cfg] :
         sc \in ScoreRange, cb \in BOOLEAN, cfg \in RiskConfigArgs }
    \cup
    { [fn |-> "calculate_position_size", equity |-> e, risk_percentage |-> rp,
       stop_loss_distance |-> sd] :
         e \in EquityArgs, rp \in RiskArgs, sd \in StopDistanceArgs }

NotCalled == <<>>

CallGetRiskPercentage ==
    /\ pc = "call"
    /\ args.fn = "get_risk_percentage"
    /\ result' = get_risk_percentage(args.tier_score,
                                     args.circuit_breaker_active,
                                     args.risk_config)
    /\ pc' = "returned"
    /\ UNCHANGED <<args, current_time, current_prices, bid_ask_columns,
                   all_signals, sig_idx, units, pmVars, tmVars, stVars>>

CallCalculatePositionSize ==
    /\ pc = "call"
    /\ args.fn = "calculate_position_size"
    /\ result' = calculate_position_size(args.equity, args.risk_percentage,
                                         args.stop_loss_distance)
    /\ pc' = "returned"
    /\ UNCHANGED <<args, current_time, current_prices, bid_ask_columns,
                   all_signals, sig_idx, units, pmVars, tmVars, stVars>>

InitRisk ==
    /\ pc = "call"
    /\ args \in RiskEngineCalls
    /\ result = NotCalled
    /\ current_time = 0
    /\ current_prices = <<>>
    /\ bid_ask_columns = TRUE
    /\ all_signals = <<>>
    /\ sig_idx = 0
    /\ units = RZero
    /\ limits_config = <<>>
    /\ current_equity = initial_equity
    /\ high_water_mark = initial_equity
    /\ circuit_breaker_active = FALSE
    /\ open_positions = <<>>
    /\ closed_trades = <<>>
    /\ trade_id_counter = 0
    /\ bar_row = <<>>
    /\ active_trades = <<>>
    /\ tm_closed_trades = <<>>
    /\ tm_trade_id_counter = 0
    /\ strategy_df = <<>>
    /\ results = <<>>
    /\ loop_i = 0
    /\ active_bull_obs = <<>>
    /\ active_bear_obs = <<>>
    /\ active_bull_fvgs = <<>>
    /\ active_bear_fvgs = <<>>

NextRisk ==
    \/ CallGetRiskPercentage
    \/ CallCalculatePositionSize

SpecRisk == InitRisk /\ [][NextRisk]_vars

---------------------------------------------------------------------------
(* Floats that may be undefined.  The indicator columns hold a rational or *)
(* NaN; NaN is the pair <<0, 0>>.  Arithmetic on NaN gives NaN and every    *)
(* comparison with NaN is false, as in numpy.                              *)

NaN == <<0, 0>>

IsNaN(x) == x[2] = 0

FAdd(a, b) == IF IsNaN(a) \/ IsNaN(b) THEN NaN ELSE RAdd(a, b)

FSub(a, b) == IF IsNaN(a) \/ IsNaN(b) THEN NaN ELSE RSub(a, b)

FMul(a, b) == IF IsNaN(a) \/ IsNaN(b) THEN NaN ELSE RMul(a, b)

\* a / b; 0 / 0 is NaN (x / 0 for x # 0 is an infinity, which no column of
\* the strategy can hold: a zero divisor there comes with a zero dividend)
FDiv(a, b) ==
    IF IsNaN(a) \/ IsNaN(b) \/ b[1] = 0 THEN NaN ELSE RDiv(a, b)

FLt(a, b) == ~IsNaN(a) /\ ~IsNaN(b) /\ RLt(a, b)

FLe(a, b) == ~IsNaN(a) /\ ~IsNaN(b) /\ RLe(a, b)

FGt(a, b) == FLt(b, a)

FGe(a, b) == FLe(b, a)

FAbs(a) == IF IsNaN(a) THEN NaN ELSE RAbs(a)

Max2(a, b) == IF a >= b THEN a ELSE b

Min2(a, b) == IF a <= b THEN a ELSE b

\* floor of a rational
RFloor(a) == a[1] \div a[2]

\* numpy's round: to the nearest integer, a tie to the even one
RoundHalfEven(a) ==
    LET f    == RFloor(a)
        frac == RSub(a, R(f))
    IN  IF RLt(frac, <<1, 2>>) THEN f
        ELSE IF RGt(frac, <<1, 2>>) THEN f + 1
        ELSE IF f % 2 = 0 THEN f ELSE f + 1

---------------------------------------------------------------------------
(* Indicators: src/src/ils/indicators.py.  A series is a sequence; bar i   *)
(* of the source (0-based) is element i + 1.                               *)

\* series[i] of the source
At(series, i) == series[i + 1]

\* the sum, the largest and the smallest of series[lo .. hi] (0-based,
\* both ends included)
RECURSIVE SumInts(_, _, _)
SumInts(series, lo, hi) ==
    IF lo > hi THEN 0
    ELSE IF lo = hi THEN At(series, lo)
    ELSE LET mid == (lo + hi) \div 2
         IN  SumInts(series, lo, mid) + SumInts(series, mid + 1, hi)

RECURSIVE MaxInts(_, _, _)
MaxInts(series, lo, hi) ==
    IF lo = hi THEN At(series, lo)
    ELSE LET mid == (lo + hi) \div 2
         IN  Max2(MaxInts(series, lo, mid), MaxInts(series, mid + 1, hi))

RECURSIVE MinInts(_, _, _)
MinInts(series, lo, hi) ==
    IF lo = hi THEN At(series, lo)
    ELSE LET mid == (lo + hi) \div 2
         IN  Min2(MinInts(series, lo, mid), MinInts(series, mid + 1, hi))

Column(df, name) == [k \in 1 .. Len(df) |-> df[k][name]]

\* a column or frame computed once and kept, as an assignment to a frame
\* column keeps it
Stored(series) == series \o <<>>

\* tr = max(high - low, |high - prev_close|, |low - prev_close|), the max
\* skipping the two terms that are NaN on the first bar
true_range(df) ==
    [k \in 1 .. Len(df) |->
        LET b == df[k] IN
        IF k = 1 THEN b.High - b.Low
        ELSE LET prev_close == df[k - 1].Close
             IN  Max2(b.High - b.Low,
                      Max2(Abs(b.High - prev_close), Abs(b.Low - prev_close)))]

\* series.rolling(window).mean(): defined from the bar that completes the
\* first window
rolling_mean(series, window) ==
    [k \in 1 .. Len(series) |->
        IF k < window THEN NaN
        ELSE Norm(SumInts(series, k - window, k - 1), window)]

AllNaN(n) == [k \in 1 .. n |-> NaN]

calculate_atr(df, period) ==
    IF Len(df) < period THEN AllNaN(Len(df))
    ELSE rolling_mean(true_range(df), period)

\* The choppiness index is 100 * log10(x) / log10(period) with
\* x = sum_tr / range_diff.  The column holds <<n, d, period>> for
\* x = n / d, and <<0, 0, period>> where the index is NaN (incomplete
\* window, or a window of range 0); the index is compared with a level by
\* chop_lt and chop_gt below.
ChopNaN(period) == <<0, 0, period>>

calculate_chop_index(df, period) ==
    IF Len(df) < period THEN [k \in 1 .. Len(df) |-> ChopNaN(period)]
    ELSE LET tr == true_range(df)
             high == Column(df, "High")
             low == Column(df, "Low")
         IN  [k \in 1 .. Len(df) |->
                IF k < period THEN ChopNaN(period)
                ELSE LET sum_tr == SumInts(tr, k - period, k - 1)
                         range_diff == MaxInts(high, k - period, k - 1)
                                         - MinInts(low, k - period, k - 1)
                         x == Norm(sum_tr, range_diff)
                     IN  IF range_diff = 0 THEN ChopNaN(period)
                         ELSE <<x[1], x[2], period>>]

\* period ** 0.618 to four decimals, for the default regime level 61.8
PowGolden(period) ==
    CASE period = 14 -> <<51087, 10000>>
      [] period = 4  -> <<23554, 10000>>
      [] period = 2  -> <<15347, 10000>>

\* the sign of (choppiness index - level), for the levels 0, 50, 61.8 and
\* 100: the sign of x - period ** (level / 100)
chop_sign(chop, level) ==
    LET x == <<chop[1], chop[2]>>
        period == chop[3]
        sign(a, b) == IF RLt(a, b) THEN -1 ELSE IF RGt(a, b) THEN 1 ELSE 0
    IN  CASE level = R(0)       -> sign(x, R(1))
          [] level = R(50)      -> sign(RMul(x, x), R(period))
          [] level = <<309, 5>> -> sign(x, PowGolden(period))
          [] level = R(100)     -> sign(x, R(period))

chop_lt(chop, level) == ~IsNaN(chop) /\ chop_sign(chop, level) < 0

chop_gt(chop, level) == ~IsNaN(chop) /\ chop_sign(chop, level) > 0

\* series.ewm(alpha=1/period, adjust=False).mean() on a series whose NaN
\* values, if any, all come first: NaN until the first value, which starts
\* the average
\* the recursion y[k] = (1 - alpha) * y[k - 1] + alpha * x[k] with
\* alpha = 1 / period over the elements lo .. hi, prev being y[lo - 1];
\* the range is walked in two halves, the second starting from the last
\* value of the first
RECURSIVE ewm_mean_range(_, _, _, _, _)
ewm_mean_range(series, period, prev, lo, hi) ==
    IF lo > hi THEN <<>>
    ELSE IF lo = hi
    THEN LET x == series[lo]
         IN  << IF IsNaN(x) THEN prev
                ELSE IF IsNaN(prev) THEN x
                ELSE RAdd(RMul(<<period - 1, period>>, prev),
                          RMul(<<1, period>>, x)) >>
    ELSE LET mid  == (lo + hi) \div 2
             left == ewm_mean_range(series, period, prev, lo, mid)
         IN  left \o ewm_mean_range(series, period, left[Len(left)],
                                    mid + 1, hi)

ewm_mean(series, period) ==
    ewm_mean_range(series, period, NaN, 1, Len(series))

IntsToFloats(series) == [k \in 1 .. Len(series) |-> R(series[k])]

calculate_adx(df, period) ==
    IF Len(df) < period THEN AllNaN(Len(df))
    ELSE LET n == Len(df)
             up_move(k) == df[k].High - df[k - 1].High
             down_move(k) == df[k - 1].Low - df[k].Low
             plus_dm == [k \in 1 .. n |->
                           IF k > 1 /\ up_move(k) > down_move(k)
                                    /\ up_move(k) > 0
                           THEN up_move(k) ELSE 0]
             minus_dm == [k \in 1 .. n |->
                           IF k > 1 /\ down_move(k) > up_move(k)
                                    /\ down_move(k) > 0
                           THEN down_move(k) ELSE 0]
             tr_smooth == ewm_mean(IntsToFloats(true_range(df)), period)
             plus_s    == ewm_mean(IntsToFloats(plus_dm), period)
             minus_s   == ewm_mean(IntsToFloats(minus_dm), period)
             plus_di   == [k \in 1 .. n |->
                             FMul(R(100), FDiv(plus_s[k], tr_smooth[k]))]
             minus_di  == [k \in 1 .. n |->
                             FMul(R(100), FDiv(minus_s[k], tr_smooth[k]))]
             dx == [k \in 1 .. n |->
                      FMul(R(100),
                           FDiv(FAbs(FSub(plus_di[k], minus_di[k])),
                                FAdd(plus_di[k], minus_di[k])))]
         IN  ewm_mean(dx, period)

\* find_swings_adaptive's window ends L bars after the bar being decided
swing_window_end_ahead(n, i, L) == Min2(n, i + L + 1)

\* end = i + 1: the window of bar i ends with bar i itself
swing_window_end(n, i, L) == i + 1

\* find_swings_adaptive's loop over the bars lo .. hi (0-based), prev
\* holding the levels confirmed last before bar lo (NaN until one is);
\* the row written for a bar holds the levels confirmed last at that bar.
\* The range is walked in two halves, the second starting from the last
\* row of the first
RECURSIVE find_swings_range(_, _, _, _, _)
find_swings_range(df, lb_vals, prev, lo, hi) ==
    IF lo > hi THEN <<>>
    ELSE IF lo = hi
    THEN LET i    == lo
             high == Column(df, "High")
             low  == Column(df, "Low")
             L    == IF At(lb_vals, i) < 2 THEN 2 ELSE At(lb_vals, i)
             center_idx == i - L
             start == IF center_idx - L < 0 THEN 0 ELSE center_idx - L
             end   == swing_window_end(Len(df), i, L)
         IN  << [ SwingHigh |->
                    IF center_idx >= 0
                       /\ At(high, center_idx) = MaxInts(high, start, end - 1)
                    THEN R(At(high, center_idx)) ELSE prev.SwingHigh,
                  SwingLow |->
                    IF center_idx >= 0
                       /\ At(low, center_idx) = MinInts(low, start, end - 1)
                    THEN R(At(low, center_idx)) ELSE prev.SwingLow ] >>
    ELSE LET mid  == (lo + hi) \div 2
             left == find_swings_range(df, lb_vals, prev, lo, mid)
         IN  left \o find_swings_range(df, lb_vals, left[Len(left)],
                                       mid + 1, hi)

\* lookback_series.fillna(5).astype(int)
lookback_values(lookback_series) ==
    [k \in 1 .. Len(lookback_series) |->
        IF IsNaN(lookback_series[k]) THEN 5
        ELSE IF lookback_series[k][1] >= 0 THEN RFloor(lookback_series[k])
        ELSE -RFloor(RNeg(lookback_series[k]))]

find_swings_adaptive(df, lookback_series) ==
    find_swings_range(df, lookback_values(lookback_series),
                      [SwingHigh |-> NaN, SwingLow |-> NaN], 0, Len(df) - 1)

---------------------------------------------------------------------------
(* Structure detection: src/src/ils/smc.py.  A DataFrame is a sequence of  *)
(* rows, a row a record of its columns; df.join adds columns row by row.   *)

Join(df, other) == [k \in 1 .. Len(df) |-> df[k] @@ other[k]]

\* df[atr_col] if atr_col in df.columns else a series of zeros
AtrColumn(df) ==
    [k \in 1 .. Len(df) |-> IF "ATR" \in DOMAIN df[k] THEN df[k].ATR ELSE RZero]

validate_displacement(df, body_ratio_min, range_atr_min) ==
    LET atr == AtrColumn(df) IN
    [k \in 1 .. Len(df) |->
        LET b == df[k]
            candle_range == b.High - b.Low
            body_size == Abs(b.Close - b.Open)
            body_ratio == IF candle_range = 0 THEN RZero
                          ELSE Norm(body_size, candle_range)
            range_condition ==
                FGe(R(candle_range), FMul(range_atr_min, atr[k]))
            body_condition == RGe(body_ratio, body_ratio_min)
            bearish_close ==
                RLe(R(b.Close), RAdd(R(b.Low), RMul(<<3, 10>>, R(candle_range))))
            bullish_close ==
                RGe(R(b.Close), RSub(R(b.High), RMul(<<3, 10>>, R(candle_range))))
        IN  [ Displacement_Bullish |->
                 range_condition /\ body_condition /\ bullish_close,
              Displacement_Bearish |->
                 range_condition /\ body_condition /\ bearish_close ]]

\* the candle between the two edges of the gap is not looked at
fvg_candle_any(close, open) == TRUE

\* close.shift(1) > open_.shift(1), and its mirror with the arguments swapped
fvg_candle(close, open) == close > open

detect_fvg(df, atr_threshold_multiplier) ==
    LET atr == AtrColumn(df) IN
    [k \in 1 .. Len(df) |->
        IF k <= 2
        THEN [FVG_Bullish |-> FALSE, FVG_Bearish |-> FALSE,
              FVG_Top |-> NaN, FVG_Bottom |-> NaN]
        ELSE LET gap_bull == df[k].Low - df[k - 2].High
                 gap_bear == df[k - 2].Low - df[k].High
                 green_candle_prev == fvg_candle(df[k - 1].Close, df[k - 1].Open)
                 red_candle_prev == fvg_candle(df[k - 1].Open, df[k - 1].Close)
                 min_size == FMul(atr[k], atr_threshold_multiplier)
                 is_bull_fvg == /\ gap_bull > 0
                                /\ green_candle_prev
                                /\ FGe(R(gap_bull), min_size)
                 is_bear_fvg == /\ gap_bear > 0
                                /\ red_candle_prev
                                /\ FGe(R(gap_bear), min_size)
             IN  [ FVG_Bullish |-> is_bull_fvg,
                   FVG_Bearish |-> is_bear_fvg,
                   FVG_Top |-> IF is_bull_fvg THEN R(df[k].Low)
                               ELSE IF is_bear_fvg THEN R(df[k - 2].Low)
                               ELSE NaN,
                   FVG_Bottom |-> IF is_bull_fvg THEN R(df[k - 2].High)
                                  ELSE IF is_bear_fvg THEN R(df[k].High)
                                  ELSE NaN ]]

detect_liquidity_sweeps(df, swings_df, sweep_atr_tolerance) ==
    LET atr == AtrColumn(df) IN
    [k \in 1 .. Len(df) |->
        IF k = 1 THEN [Sweep_Bullish |-> FALSE, Sweep_Bearish |-> FALSE]
        ELSE LET last_swing_high == swings_df[k].SwingHigh
                 last_swing_low  == swings_df[k].SwingLow
                 high  == R(df[k].High)
                 low   == R(df[k].Low)
                 close == R(df[k].Close)
                 prev_close == R(df[k - 1].Close)
                 threshold ==
                     FAdd(last_swing_high, FMul(sweep_atr_tolerance, atr[k]))
                 bear ==
                     /\ ~IsNaN(last_swing_high)
                     /\ \/ /\ FGt(high, last_swing_high)
                           /\ FLe(close, threshold)
                           /\ FLt(close, last_swing_high)
                        \/ /\ FGt(prev_close, last_swing_high)
                           /\ FLt(close, last_swing_high)
                 bull ==
                     /\ ~IsNaN(last_swing_low)
                     /\ \/ /\ FLt(low, last_swing_low)
                           /\ FGt(close, last_swing_low)
                        \/ /\ FLt(prev_close, last_swing_low)
                           /\ FGt(close, last_swing_low)
             IN  [Sweep_Bullish |-> bull, Sweep_Bearish |-> bear]]

validate_mss(df, swings_df) ==
    [k \in 1 .. Len(df) |->
        [ MSS_Bullish |-> FGt(R(df[k].Close), swings_df[k].SwingHigh),
          MSS_Bearish |-> FLt(R(df[k].Close), swings_df[k].SwingLow) ]]

\* df['Volume'].rolling(20).mean().fillna(0)
volume_sma(df) ==
    [k \in 1 .. Len(df) |->
        IF k < 20 THEN RZero
        ELSE Norm(SumInts(Column(df, "Volume"), k - 20, k - 1), 20)]

\* the origin candle of a break at bar i: the last down candle (for a
\* bullish block, the last up candle for a bearish one) among bars i-2 down
\* to max(0, i-10) + 1; -1 if there is none
RECURSIVE origin_candle(_, _, _, _)
origin_candle(df, k, stop, down) ==
    IF k <= stop THEN -1
    ELSE IF (IF down THEN At(df, k).Close < At(df, k).Open
                     ELSE At(df, k).Close > At(df, k).Open) THEN k
    ELSE origin_candle(df, k - 1, stop, down)

\* vol_vals[origin_idx] <= vol_sma[origin_idx] * volume_factor fails the
\* order block, when the frame has a Volume column
is_valid_ob(df, origin_idx, volume_factor) ==
    IF "Volume" \in DOMAIN At(df, origin_idx)
    THEN ~RLe(R(At(df, origin_idx).Volume),
              RMul(At(volume_sma(df), origin_idx), volume_factor))
    ELSE TRUE

\* detect_order_blocks's loop body at bar i: the bar flagged as a
\* bullish (down = TRUE) or bearish order block, -1 when none is
order_block_origin(df, fvg_df, swings_df, volume_factor, i, down) ==
    LET close == R(At(df, i).Close)
        stop  == Max2(0, i - 10)
        broke == IF down
                 THEN At(fvg_df, i).FVG_Bullish
                      /\ FGt(close, At(swings_df, i).SwingHigh)
                 ELSE At(fvg_df, i).FVG_Bearish
                      /\ FLt(close, At(swings_df, i).SwingLow)
        origin_idx == IF broke THEN origin_candle(df, i - 2, stop, down)
                      ELSE -1
    IN  IF origin_idx # -1 /\ is_valid_ob(df, origin_idx, volume_factor)
        THEN origin_idx ELSE -1

\* the bars flagged by the loop over i = 3 .. len(df) - 1
order_blocks(df, fvg_df, swings_df, volume_factor) ==
    LET flagged(down) ==
            { order_block_origin(df, fvg_df, swings_df, volume_factor,
                                 i, down) : i \in 3 .. Len(df) - 1 } \ {-1}
    IN  [ob_bull |-> flagged(TRUE), ob_bear |-> flagged(FALSE)]

detect_order_blocks(df, fvg_df, swings_df, volume_factor) ==
    LET ob == order_blocks(df, fvg_df, swings_df, volume_factor)
    IN  [k \in 1 .. Len(df) |->
            [ OB_Bullish |-> (k - 1) \in ob.ob_bull,
              OB_Bearish |-> (k - 1) \in ob.ob_bear ]]

---------------------------------------------------------------------------
(* Signal engine: src/src/ils/strategy.py *)

\* check_killzone on the hour of day of an hourly timestamp: London
\* 07:00-10:00, New York 12:00-15:00, London close 15:00-17:00
check_killzone(timestamp) ==
    LET t == timestamp % 24 IN
    \/ 7 <= t /\ t <= 10
    \/ 12 <= t /\ t <= 15
    \/ 15 <= t /\ t <= 17

\* the scoring weights used when scoring_config is None
DefaultScoringConfig ==
    [ htf_alignment |-> 25, htf_poi |-> 15, displacement |-> 10,
      fvg_clean |-> 10, liquidity_sweep |-> 15, killzone |-> 10,
      chop_filter |-> 5 ]

\* (score, breakdown) of a candidate row
calculate_confluence_score(row, htf_bias, scoring_config) ==
    LET cfg == IF IsNone(scoring_config) THEN DefaultScoringConfig
               ELSE scoring_config
        signal == Get(row, "Signal", "None")
        w_htf == Get(cfg, "htf_alignment", 25)
        htf == IF \/ htf_bias = "Bullish" /\ signal = "Long"
                  \/ htf_bias = "Bearish" /\ signal = "Short"
               THEN w_htf ELSE 0
        w_poi == Get(cfg, "htf_poi", 15)
        poi == IF Get(row, "Near_POI", FALSE) THEN w_poi ELSE 0
        w_disp == Get(cfg, "displacement", 10)
        w_fvg == Get(cfg, "fvg_clean", 10)
        fvg == IF \/ signal = "Long" /\ Get(row, "FVG_Bullish", FALSE)
                  \/ signal = "Short" /\ Get(row, "FVG_Bearish", FALSE)
               THEN w_fvg ELSE 0
        w_sweep == Get(cfg, "liquidity_sweep", 15)
        sweep == IF \/ Get(row, "Sweep_Bullish", FALSE)
                    \/ Get(row, "Sweep_Bearish", FALSE)
                 THEN w_sweep ELSE 0
        w_kz == Get(cfg, "killzone", 10)
        kz == IF Get(row, "In_Killzone", FALSE) THEN w_kz ELSE 0
        w_chop == Get(cfg, "chop_filter", 5)
        chop == IF "Chop" \in DOMAIN row /\ chop_lt(row.Chop, R(50))
                THEN w_chop ELSE 0
    IN  [ score |-> htf + poi + w_disp + fvg + sweep + kz + chop,
          breakdown |-> [ Score_HTF     |-> htf + poi,
                          Score_Disp    |-> w_disp + fvg,
                          Score_Liq     |-> sweep,
                          Score_Context |-> kz + chop ] ]


\* if i < 100: continue
WarmupBars == 100

\* steps 1 and 2 of run_strategy: the frame with the indicator and the
\* structure columns joined to it
strategy_columns(df, config) ==
    LET ind_cfg   == Get(config, "indicators", <<>>)
        smc_cfg   == Get(config, "smc", <<>>)
        adapt_cfg == Get(config, "adaptive", <<>>)
        atr     == Stored(calculate_atr(df, Get(ind_cfg, "atr_fast", 14)))
        atr_100 == Stored(calculate_atr(df, Get(ind_cfg, "atr_slow", 100)))
        chop    == Stored(calculate_chop_index(
                          df, Get(ind_cfg, "chop_period", 14)))
        adx     == Stored(calculate_adx(df, Get(ind_cfg, "adx_period", 14)))
        df1 == Stored([k \in 1 .. Len(df) |->
                  df[k] @@ [ATR |-> atr[k], ATR_100 |-> atr_100[k],
                            Chop |-> chop[k], ADX |-> adx[k]]])
        fvg_df == Stored(detect_fvg(
                      df1, Get(smc_cfg, "fvg_threshold", <<1, 2>>)))
        disp_df == Stored(validate_displacement(
                      df1, Get(smc_cfg, "disp_body_ratio", <<3, 5>>),
                      Get(smc_cfg, "disp_range_atr", <<3, 2>>)))
        sl_cfg == Get(adapt_cfg, "swing_lookback", <<>>)
        base0  == Get(adapt_cfg, "base_lookback", 5)
        min0   == Get(adapt_cfg, "min_lookback", 3)
        max_lb == Get(adapt_cfg, "max_lookback", 10)
        base_lb == IF sl_cfg # <<>> THEN Get(sl_cfg, "htf", base0) ELSE base0
        min_lb  == IF sl_cfg # <<>> THEN Get(sl_cfg, "ltf", min0) ELSE min0
        lookback_series ==
            Stored([k \in 1 .. Len(df) |->
                LET atr_ratio == FDiv(atr[k], atr_100[k])
                    rounded == IF IsNaN(atr_ratio) THEN base_lb
                               ELSE RoundHalfEven(RMul(R(base_lb), atr_ratio))
                IN  R(Min2(max_lb, Max2(min_lb, rounded)))])
        swings_df == find_swings_adaptive(df1, lookback_series)
        sweeps_df == Stored(detect_liquidity_sweeps(
                        df1, swings_df, Get(smc_cfg, "sweep_atr", <<1, 5>>)))
        mss_df == Stored(validate_mss(df1, swings_df))
        ob_df == Stored(detect_order_blocks(
                    df1, fvg_df, swings_df,
                    Get(smc_cfg, "ob_volume_factor", R(1))))
    IN  Stored([k \in 1 .. Len(df) |->
            df1[k] @@ fvg_df[k] @@ disp_df[k]
                   @@ [L_Adaptive |-> lookback_series[k]]
                   @@ sweeps_df[k] @@ mss_df[k] @@ ob_df[k]])

\* step 3 before the loop: results = df.copy() with the signal columns
\* at their initial values; timestamps are hourly from start_hour
strategy_results(df, htf_bias, start_hour) ==
    [k \in 1 .. Len(df) |->
        df[k] @@ [ Signal |-> "None", Tier_Score |-> 0, Score_HTF |-> 0,
                   Score_Disp |-> 0, Score_Liq |-> 0, Score_Context |-> 0,
                   Risk_Units |-> RZero, Entry_Price |-> NaN,
                   Stop_Loss |-> NaN, Take_Profit |-> NaN,
                   HTF_Bias |-> htf_bias,
                   In_Killzone |-> check_killzone(start_hour + k - 1),
                   Near_POI |-> FALSE ]]

\* df[column].iloc[max(0, i - lookback) : i + 1].any()
AnyRecent(df, column, i, lookback) ==
    \E j \in Max2(0, i - lookback) .. i : At(df, j)[column]

\* the regime filter lets a bar through when either value is undefined
\* or the market is not both choppy and trendless
regime_skip(row, chop_regime_thresh, adx_regime_thresh) ==
    /\ chop_gt(row.Chop, chop_regime_thresh)
    /\ FLt(row.ADX, adx_regime_thresh)

\* lookback = 10
SweepLookback == 10

\* the sweep test is left out
recent_sweep_any(df, column, i) == TRUE

\* df[column].iloc[max(0, i - lookback) : i + 1].any()
recent_sweep(df, column, i) == AnyRecent(df, column, i, SweepLookback)

\* the setup test of bar i: the direction of the signal detected, "None"
\* when none is
setup_direction(df, smc_cfg, i) ==
    LET row == At(df, i)
        choch_req == Get(smc_cfg, "choch_required", TRUE)
        has_mss_bear == IF choch_req THEN row.MSS_Bearish ELSE TRUE
        has_mss_bull == IF choch_req THEN row.MSS_Bullish ELSE TRUE
    IN  IF row.Displacement_Bearish /\ has_mss_bear
        THEN IF recent_sweep(df, "Sweep_Bearish", i) THEN "Short" ELSE "None"
        ELSE IF row.Displacement_Bullish /\ has_mss_bull
        THEN IF recent_sweep(df, "Sweep_Bullish", i) THEN "Long" ELSE "None"
        ELSE "None"

\* a bearish zone is dropped when the high of the bar goes above it
bear_zone_kept_wick(row, zone) == FLe(R(row.High), zone.top)

\* row['Close'] <= zone['top']: a bearish order block or gap stays in its
\* registry
bear_zone_kept(row, zone) == FLe(R(row.Close), zone.top)

\* the target is put two stop distances from the entry
take_profit_two(direction, entry_price, dist) ==
    IF direction = "Long"
    THEN FAdd(entry_price, FMul(R(2), dist))
    ELSE FSub(entry_price, FMul(R(2), dist))

\* the target of a candidate: three stop distances from the entry
take_profit(direction, entry_price, dist) ==
    IF direction = "Long"
    THEN FAdd(entry_price, FMul(R(3), dist))
    ELSE FSub(entry_price, FMul(R(3), dist))

\* one iteration of run_strategy's loop for a bar i >= 100; st holds
\* results and the four registries
strategy_bar(df, config, account_equity, st, i) ==
    LET row == At(df, i)
        smc_cfg   == Get(config, "smc", <<>>)
        score_cfg == Get(config, "scoring", <<>>)
        risk_cfg  == Get(config, "risk", <<>>)
        zone_ob  == [top |-> R(row.High), bottom |-> R(row.Low)]
        zone_fvg == [top |-> row.FVG_Top, bottom |-> row.FVG_Bottom]
        bull_obs0 == IF row.OB_Bullish THEN Append(st.active_bull_obs, zone_ob)
                     ELSE st.active_bull_obs
        bear_obs0 == IF row.OB_Bearish THEN Append(st.active_bear_obs, zone_ob)
                     ELSE st.active_bear_obs
        bull_fvgs0 == IF row.FVG_Bullish
                      THEN Append(st.active_bull_fvgs, zone_fvg)
                      ELSE st.active_bull_fvgs
        bear_fvgs0 == IF row.FVG_Bearish
                      THEN Append(st.active_bear_fvgs, zone_fvg)
                      ELSE st.active_bear_fvgs
        close == R(row.Close)
        bull_fvgs == SelectSeq(bull_fvgs0, LAMBDA f : FGe(close, f.bottom))
        bear_fvgs == SelectSeq(bear_fvgs0, LAMBDA f : bear_zone_kept(row, f))
        bull_obs == SelectSeq(bull_obs0, LAMBDA ob : FGe(close, ob.bottom))
        bear_obs == SelectSeq(bear_obs0, LAMBDA ob : bear_zone_kept(row, ob))
        near_poi ==
            \/ \E k \in DOMAIN bull_obs : FLe(R(row.Low), bull_obs[k].top)
            \/ \E k \in DOMAIN bear_obs : FGe(R(row.High), bear_obs[k].bottom)
        skip == regime_skip(row,
                            Get(score_cfg, "chop_regime_threshold", <<309, 5>>),
                            Get(score_cfg, "adx_regime_threshold", R(20)))
        direction == setup_direction(df, smc_cfg, i)
        row_dict == [k \in (DOMAIN row) \cup {"Signal", "Near_POI"} |->
                       IF k = "Signal" THEN direction
                       ELSE IF k = "Near_POI" THEN near_poi ELSE row[k]]
        curr_bias == At(st.results, i).HTF_Bias
        scored == calculate_confluence_score(row_dict, curr_bias, score_cfg)
        risk_pct == get_risk_percentage(scored.score, FALSE, risk_cfg)
        entry_price == R(row.Close)
        stop_loss == IF direction = "Long"
                     THEN FSub(R(row.Low), FMul(<<3, 2>>, row.ATR))
                     ELSE FAdd(R(row.High), FMul(<<3, 2>>, row.ATR))
        dist == FAbs(FSub(entry_price, stop_loss))
        target == take_profit(direction, entry_price, dist)
        old == At(st.results, i)
        with_poi == [old EXCEPT !.Near_POI = near_poi]
        emitted ==
            [with_poi EXCEPT
               !.Signal = direction,
               !.Tier_Score = scored.score,
               !.Score_HTF = scored.breakdown.Score_HTF,
               !.Score_Disp = scored.breakdown.Score_Disp,
               !.Score_Liq = scored.breakdown.Score_Liq,
               !.Score_Context = scored.breakdown.Score_Context,
               !.Entry_Price = entry_price,
               !.Stop_Loss = stop_loss,
               !.Take_Profit = target,
               !.Risk_Units = calculate_position_size(account_equity,
                                                      risk_pct, dist)]
        new_row == IF ~skip /\ direction # "None" /\ RGt(risk_pct, RZero)
                   THEN emitted ELSE with_poi
    IN  [ results |-> [st.results EXCEPT ![i + 1] = new_row],
          active_bull_obs |-> bull_obs,
          active_bear_obs |-> bear_obs,
          active_bull_fvgs |-> bull_fvgs,
          active_bear_fvgs |-> bear_fvgs ]


\* results and the registries when the loop starts
strategy_start(df, htf_bias, start_hour) ==
    [ results |-> strategy_results(df, htf_bias, start_hour),
      active_bull_obs |-> <<>>, active_bear_obs |-> <<>>,
      active_bull_fvgs |-> <<>>, active_bear_fvgs |-> <<>> ]

\* run_strategy's loop over the bars before bar n; the bars below
\* WarmupBars are skipped by `continue`
RECURSIVE strategy_loop(_, _, _, _, _)
strategy_loop(df, config, account_equity, st0, n) ==
    IF n <= WarmupBars THEN st0
    ELSE strategy_bar(df, config, account_equity,
                      strategy_loop(df, config, account_equity, st0, n - 1),
                      n - 1)

\* run_strategy as a whole: the frame with its columns, and results and
\* the registries as the loop leaves them
run_strategy(df, account_equity, htf_bias, config, start_hour) ==
    LET columns == strategy_columns(df, config)
    IN  [ df |-> columns,
          st |-> strategy_loop(columns, config, account_equity,
                               strategy_start(columns, htf_bias, start_hour),
                               Len(df)) ]

---------------------------------------------------------------------------
(* run_strategy applied to a bar series: a quiet history of WarmupBars     *)
(* bars followed by a few bars drawn from TailBars                         *)

\* the longest drawn tail
MaxTail == 3

Bar(o, h, l, c, v) ==
    [Open |-> o, High |-> h, Low |-> l, Close |-> c, Volume |-> v]

\* the bar of the quiet history
FlatBar == Bar(32, 32, 32, 32, 1)

\* bars that follow the history: a wide up candle around it, a long down
\* candle, a bar far below, a quiet bar, and a three-bar rise from below
\* the history
TailBars ==
    { Bar(23, 42, 22, 41, 2), Bar(41, 41, 15, 16, 2), Bar(12, 12, 4, 5, 2),
      FlatBar,
      Bar(12, 13, 11, 12, 2), Bar(12, 24, 12, 24, 2), Bar(23, 46, 22, 45, 2) }

Tails == UNION { [1 .. n -> TailBars] : n \in 1 .. MaxTail }

History == [k \in 1 .. WarmupBars |-> FlatBar]

WithoutVolume(df) ==
    [k \in 1 .. Len(df) |->
        [c \in {"Open", "High", "Low", "Close"} |-> df[k][c]]]

\* a configuration that sets every section
CustomConfig ==
    [ indicators |-> [atr_fast |-> 3, atr_slow |-> 10, chop_period |-> 4,
                      adx_period |-> 2],
      smc        |-> [choch_required |-> FALSE, fvg_threshold |-> <<1, 4>>,
                      ob_volume_factor |-> <<3, 2>>],
      adaptive   |-> [base_lookback |-> 2, min_lookback |-> 1,
                      max_lookback |-> 3],
      scoring    |-> [chop_regime_threshold |-> R(50),
                      adx_regime_threshold |-> R(20), htf_alignment |-> 30],
      risk       |-> [tier_2_threshold |-> 50, base_risk_pct |-> <<1, 50>>] ]

\* the same with a wide regime filter: a bar is skipped when its
\* choppiness is above 0 and its ADX below 60
RegimeConfig ==
    [ CustomConfig EXCEPT
        !.scoring = [ chop_regime_threshold |-> R(0),
                      adx_regime_threshold |-> R(60), htf_alignment |-> 30 ] ]

\* configuration, bias, first timestamp and whether the frame has a Volume
\* column
StrategyRuns ==
    { [config |-> <<>>, htf_bias |-> "Bullish", start_hour |-> 0,
       volume |-> FALSE],
      [config |-> <<>>, htf_bias |-> "Bearish", start_hour |-> 7,
       volume |-> TRUE],
      [config |-> CustomConfig, htf_bias |-> "Bullish", start_hour |-> 3,
       volume |-> TRUE],
      [config |-> RegimeConfig, htf_bias |-> "Bearish", start_hour |-> 3,
       volume |-> TRUE] }

StrategyCalls ==
    { [fn |-> "run_strategy",
       df |-> IF run.volume THEN History \o tail
              ELSE WithoutVolume(History \o tail),
       account_equity |-> R(10000),
       htf_bias |-> run.htf_bias,
       config |-> run.config,
       start_hour |-> run.start_hour] : run \in StrategyRuns, tail \in Tails }

\* steps 1 and 2: indicators and structure detection
StrategyColumns ==
    /\ pc = "columns"
    /\ strategy_df' = strategy_columns(args.df, args.config)
    /\ pc' = "results"
    /\ UNCHANGED <<simVars, fnVars, results, loop_i, registries>>

\* step 3 up to the loop
StrategyResults ==
    /\ pc = "results"
    /\ LET st == strategy_start(strategy_df, args.htf_bias, args.start_hour)
       IN  /\ results' = st.results
           /\ active_bull_obs' = st.active_bull_obs
           /\ active_bear_obs' = st.active_bear_obs
           /\ active_bull_fvgs' = st.active_bull_fvgs
           /\ active_bear_fvgs' = st.active_bear_fvgs
    /\ loop_i' = 0
    /\ pc' = "loop"
    /\ UNCHANGED <<simVars, fnVars, strategy_df>>

\* if i < 100: continue -- the iterations on the bars below WarmupBars,
\* which change nothing, taken together
WarmupBar ==
    /\ pc = "loop"
    /\ loop_i < Len(strategy_df)
    /\ loop_i < WarmupBars
    /\ loop_i' = Min2(WarmupBars, Len(strategy_df))
    /\ UNCHANGED <<pc, simVars, fnVars, strategy_df, results, registries>>

\* one iteration of the loop on a bar past the warm-up
ProcessBar ==
    /\ pc = "loop"
    /\ loop_i < Len(strategy_df)
    /\ loop_i >= WarmupBars
    /\ LET st == strategy_bar(strategy_df, args.config, args.account_equity,
                              [ results |-> results,
                                active_bull_obs |-> active_bull_obs,
                                active_bear_obs |-> active_bear_obs,
                                active_bull_fvgs |-> active_bull_fvgs,
                                active_bear_fvgs |-> active_bear_fvgs ],
                              loop_i)
       IN  /\ results' = st.results
           /\ active_bull_obs' = st.active_bull_obs
           /\ active_bear_obs' = st.active_bear_obs
           /\ active_bull_fvgs' = st.active_bull_fvgs
           /\ active_bear_fvgs' = st.active_bear_fvgs
    /\ loop_i' = loop_i + 1
    /\ UNCHANGED <<pc, simVars, fnVars, strategy_df>>

\* return results
StrategyReturn ==
    /\ pc = "loop"
    /\ loop_i = Len(strategy_df)
    /\ result' = results
    /\ pc' = "returned"
    /\ UNCHANGED <<args, simVars, stVars>>

InitStrategy ==
    /\ pc = "columns"
    /\ args \in StrategyCalls
    /\ result = NotCalled
    /\ strategy_df = args.df
    /\ results = <<>>
    /\ loop_i = 0
    /\ active_bull_obs = <<>>
    /\ active_bear_obs = <<>>
    /\ active_bull_fvgs = <<>>
    /\ active_bear_fvgs = <<>>
    /\ current_time = 0
    /\ current_prices = <<>>
    /\ bid_ask_columns = TRUE
    /\ all_signals = <<>>
    /\ sig_idx = 0
    /\ units = RZero
    /\ limits_config = <<>>
    /\ current_equity = initial_equity
    /\ high_water_mark = initial_equity
    /\ circuit_breaker_active = FALSE
    /\ open_positions = <<>>
    /\ closed_trades = <<>>
    /\ trade_id_counter = 0
    /\ bar_row = <<>>
    /\ active_trades = <<>>
    /\ tm_closed_trades = <<>>
    /\ tm_trade_id_counter = 0

NextStrategy ==
    \/ StrategyColumns
    \/ StrategyResults
    \/ WarmupBar
    \/ ProcessBar
    \/ StrategyReturn

SpecStrategy == InitStrategy /\ [][NextStrategy]_vars

----------------------------------------------------------------------------
(* The indicator, structure, scoring and slippage functions called on      *)
(* their own                                                               *)

\* the longest bar series of a direct call
MaxBars == 5

Candle(o, h, l, c) == [Open |-> o, High |-> h, Low |-> l, Close |-> c]

\* an up candle at the bottom, an up candle whose low touches the first
\* one's high, and a down candle above both
Candles == { Candle(1, 2, 1, 2), Candle(3, 4, 2, 4), Candle(6, 6, 4, 4) }

BarSeries == UNION { [1 .. n -> Candles] : n \in 1 .. MaxBars }

\* the fixture sample_data of the tests
sample_data ==
    << Candle(100, 102, 99, 102), Candle(102, 104, 101, 101),
       Candle(101, 103, 100, 103), Candle(105, 108, 104, 106),
       Candle(104, 105, 100, 101), Candle(100, 102, 98, 99),
       Candle(101, 104, 100, 103), Candle(103, 104, 101, 102),
       Candle(102, 103, 100, 101), Candle(105, 107, 103, 106) >>

\* the frame of test_fvg_detection, before its ATR column is set
fvg_test_data ==
    << Candle(90, 100, 80, 95), Candle(101, 105, 101, 104),
       Candle(105, 110, 102, 108) >>

\* df['ATR'] = atr
WithAtr(df, atr) == [k \in 1 .. Len(df) |-> df[k] @@ [ATR |-> atr]]

AtrPeriods == 1 .. 3

\* the lookback column of a call: a number on every bar, or NaN
LookbackArgs == { R(2), R(3), <<5, 2>>, R(1), NaN }

AtrValues == { RZero, R(1), R(4), NaN }

FvgThresholds == { <<1, 2>>, RZero, R(1) }

\* scoring weights that add up to more than 100
HeavyScoringConfig ==
    [ htf_alignment |-> 50, htf_poi |-> 30, displacement |-> 20,
      fvg_clean |-> 20, liquidity_sweep |-> 15, killzone |-> 10,
      chop_filter |-> 5 ]

ScoringConfigArgs ==
    { None, <<>>, HeavyScoringConfig,
      [ htf_alignment |-> 30, killzone |-> 0 ] }

\* candidate rows: the columns that calculate_confluence_score reads
CandidateRows ==
    { [ Signal |-> sig, Near_POI |-> poi, FVG_Bullish |-> fvg,
        FVG_Bearish |-> ~fvg, Sweep_Bullish |-> sweep,
        Sweep_Bearish |-> FALSE, Chop |-> chop ] @@ kz :
        sig \in {"Long", "Short"}, poi \in BOOLEAN, fvg \in BOOLEAN,
        sweep \in BOOLEAN,
        chop \in { <<1, 1, 14>>, <<14, 1, 14>>, ChopNaN(14) },
        kz \in { <<>>, [In_Killzone |-> TRUE] } }

\* the ATR of a bar as the TradeManager reads it (0 when the row has no
\* ATR column), and tick sizes around a tenth of it
SlippageAtrArgs == 0 .. 4

MinTickArgs == { DefaultMinTick, <<1, 4>>, <<1, 10>>, R(1) }

\* sweep tolerances: the default 0.2, none, and a whole ATR
SweepTolerances == { <<1, 5>>, RZero, R(1) }

\* the swings of a direct call of detect_liquidity_sweeps are those of
\* a constant lookback of two bars
SweepSwings(df) == find_swings_adaptive(df, [k \in 1 .. Len(df) |-> R(2)])

StructureCalls ==
    { [fn |-> "detect_liquidity_sweeps", df |-> WithAtr(df, atr),
       swings_df |-> SweepSwings(df), sweep_atr_tolerance |-> tol] :
         df \in BarSeries, atr \in {R(1), R(4)}, tol \in SweepTolerances }
    \cup
    { [fn |-> "calculate_slippage", atr |-> a, min_tick |-> t] :
         a \in SlippageAtrArgs, t \in MinTickArgs }
    \cup
    { [fn |-> "calculate_atr", df |-> df, period |-> p] :
         df \in BarSeries \cup {sample_data}, p \in AtrPeriods }
    \cup
    { [fn |-> "find_swings_adaptive", df |-> c.df,
       lookback_series |-> [k \in 1 .. Len(c.df) |-> c.lb], i |-> c.i] :
         c \in { c \in [df : BarSeries, lb : LookbackArgs,
                        i : 0 .. MaxBars - 1] : c.i < Len(c.df) } }
    \cup
    { [fn |-> "detect_fvg", df |-> WithAtr(df, atr),
       atr_threshold_multiplier |-> m] :
         df \in BarSeries \cup {fvg_test_data}, atr \in AtrValues,
         m \in FvgThresholds }
    \cup
    { [fn |-> "detect_fvg", df |-> df, atr_threshold_multiplier |-> m] :
         df \in BarSeries, m \in FvgThresholds }
    \cup
    { [fn |-> "calculate_confluence_score", row |-> row, htf_bias |-> bias,
       scoring_config |-> cfg] :
         row \in CandidateRows, bias \in {"Bullish", "Bearish", "Neutral"},
         cfg \in ScoringConfigArgs }

CallCalculateSlippage ==
    /\ pc = "call"
    /\ args.fn = "calculate_slippage"
    /\ result' = calculate_slippage(args.atr, args.min_tick)
    /\ pc' = "returned"
    /\ UNCHANGED <<args, simVars, stVars>>

CallCalculateAtr ==
    /\ pc = "call"
    /\ args.fn = "calculate_atr"
    /\ result' = calculate_atr(args.df, args.period)
    /\ pc' = "returned"
    /\ UNCHANGED <<args, simVars, stVars>>

\* find_swings_adaptive on the whole series and, next to it, on the series
\* cut after bar i
CallFindSwingsAdaptive ==
    /\ pc = "call"
    /\ args.fn = "find_swings_adaptive"
    /\ result' =
          [ whole |-> find_swings_adaptive(args.df, args.lookback_series),
            truncated |-> find_swings_adaptive(
                             SubSeq(args.df, 1, args.i + 1),
                             SubSeq(args.lookback_series, 1, args.i + 1)) ]
    /\ pc' = "returned"
    /\ UNCHANGED <<args, simVars, stVars>>

CallDetectFvg ==
    /\ pc = "call"
    /\ args.fn = "detect_fvg"
    /\ result' = detect_fvg(args.df, args.atr_threshold_multiplier)
    /\ pc' = "returned"
    /\ UNCHANGED <<args, simVars, stVars>>

CallDetectLiquiditySweeps ==
    /\ pc = "call"
    /\ args.fn = "detect_liquidity_sweeps"
    /\ result' = detect_liquidity_sweeps(args.df, args.swings_df,
                                         args.sweep_atr_tolerance)
    /\ pc' = "returned"
    /\ UNCHANGED <<args, simVars, stVars>>

CallCalculateConfluenceScore ==
    /\ pc = "call"
    /\ args.fn = "calculate_confluence_score"
    /\ result' = calculate_confluence_score(args.row, args.htf_bias,
                                            args.scoring_config)
    /\ pc' = "returned"
    /\ UNCHANGED <<args, simVars, stVars>>

InitStructure ==
    /\ pc = "call"
    /\ args \in StructureCalls
    /\ result = NotCalled
    /\ strategy_df = <<>>
    /\ results = <<>>
    /\ loop_i = 0
    /\ active_bull_obs = <<>>
    /\ active_bear_obs = <<>>
    /\ active_bull_fvgs = <<>>
    /\ active_bear_fvgs = <<>>
    /\ current_time = 0
    /\ current_prices = <<>>
    /\ bid_ask_columns = TRUE
    /\ all_signals = <<>>
    /\ sig_idx = 0
    /\ units = RZero
    /\ limits_config = <<>>
    /\ current_equity = initial_equity
    /\ high_water_mark = initial_equity
    /\ circuit_breaker_active = FALSE
    /\ open_positions = <<>>
    /\ closed_trades = <<>>
    /\ trade_id_counter = 0
    /\ bar_row = <<>>
    /\ active_trades = <<>>
    /\ tm_closed_trades = <<>>
    /\ tm_trade_id_counter = 0

NextStructure ==
    \/ CallCalculateSlippage
    \/ CallCalculateAtr
    \/ CallFindSwingsAdaptive
    \/ CallDetectFvg
    \/ CallDetectLiquiditySweeps
    \/ CallCalculateConfluenceScore

SpecStructure == InitStructure /\ [][NextStructure]_vars

---------------------------------------------------------------------------
(* The PortfolioManager called on its own: admissions and exits in any     *)
(* order                                                                   *)

\* trades a book opens at most
MaxTrades == 3

\* instruments of the candidates: EURUSD is correlated at 0.75 with each of
\* the other two, which are correlated at 0.70 with each other
BookSymbols == {"EURUSD", "GBPUSD", "AUDUSD"}

\* limits_config of the book: the defaults, and a lower correlation
\* threshold
BookLimits == { <<>>, [correlation_threshold |-> Pct(50)] }

\* the bars of the book's candidates: a Long at either tier and a Short
BookBars ==
    { bar \in SignalBars :
        /\ bar.row.ATR > 0
        /\ bar.Signal = "Short" => bar.Tier_Score = 70 }

\* the bars that follow: one through the stop of a Long and the target of a
\* Short, one the other way
BookRows == { Row(16, 30, 16, 2), Row(33, 48, 48, 2) }

\* the candidate run_strategy emits for a bar of SignalBars
BookCandidate(symbol, bar) ==
    StrategySignal(symbol, current_time, PriceRow(bar.row), bar.Signal,
                   bar.Tier_Score, initial_balance, RiskConfig)

\* units = pm.size_candidate(signal); if units > 0:
\* pm.execute_trade(signal, units, timestamp)
AdmitCandidate ==
    /\ pc = "book"
    /\ trade_id_counter < MaxTrades
    /\ \E symbol \in BookSymbols, bar \in BookBars :
          LET sized == size_candidate(BookCandidate(symbol, bar)) IN
          /\ units' = sized.units
          /\ IF Admitted(sized.units)
             THEN /\ trade_id_counter' = trade_id_counter + 1
                  /\ open_positions' =
                       Append(open_positions,
                              NewTrade(sized.signal, sized.units, current_time,
                                       trade_id_counter + 1))
             ELSE UNCHANGED <<trade_id_counter, open_positions>>
    /\ UNCHANGED <<pc, current_time, current_prices, bid_ask_columns,
                   all_signals, sig_idx, limits_config, current_equity,
                   high_water_mark, circuit_breaker_active, closed_trades,
                   otherVars>>

\* pm.process_market_update(timestamp, prices) on the next bar of one
\* instrument
CloseOnBar ==
    /\ pc = "book"
    /\ current_time < MaxTime
    /\ \E symbol \in OpenSymbols, row \in BookRows :
          LET prices == [s \in {symbol} |-> PriceRow(row)]
              x == process_market_update(current_time + 1, prices)
          IN  /\ current_prices' = prices
              /\ open_positions' = x.open_positions
              /\ closed_trades' = x.closed_trades
    /\ current_time' = current_time + 1
    /\ UNCHANGED <<pc, bid_ask_columns, all_signals, sig_idx, units,
                   limits_config, current_equity, high_water_mark,
                   circuit_breaker_active, trade_id_counter, otherVars>>

InitBook ==
    /\ pc = "book"
    /\ limits_config \in BookLimits
    /\ current_time = 0
    /\ current_prices = <<>>
    /\ bid_ask_columns = FALSE
    /\ all_signals = <<>>
    /\ sig_idx = 0
    /\ units = RZero
    /\ current_equity = initial_equity
    /\ high_water_mark = initial_equity
    /\ circuit_breaker_active = FALSE
    /\ open_positions = <<>>
    /\ closed_trades = <<>>
    /\ trade_id_counter = 0
    /\ bar_row = <<>>
    /\ active_trades = <<>>
    /\ tm_closed_trades = <<>>
    /\ tm_trade_id_counter = 0
    /\ args = <<>>
    /\ result = <<>>
    /\ strategy_df = <<>>
    /\ results = <<>>
    /\ loop_i = 0
    /\ active_bull_obs = <<>>
    /\ active_bear_obs = <<>>
    /\ active_bull_fvgs = <<>>
    /\ active_bear_fvgs = <<>>

NextBook ==
    \/ AdmitCandidate
    \/ CloseOnBar

SpecBook == InitBook /\ [][NextBook]_vars

---------------------------------------------------------------------------
(* Properties of the portfolio simulation (Spec) *)

\* a time step has ended: the loop is back at its head, or has finished
StepEnded == pc \in {"snapshot", "done"} /\ current_time >= 1

\* the last candidate taken from all_signals, once one was taken in this step
LastCandidate == all_signals[sig_idx]

CandidateSized ==
    /\ pc = "signals"
    /\ sig_idx > 0
    /\ LastCandidate.Timestamp = current_time

\* a bar reaches the stop or the target of a trade
TouchesStop(trade, bar) ==
    IF trade.signal = "Long"
    THEN Get(bar, "Bid_Low", bar.Low) <= trade.stop_loss
    ELSE Get(bar, "Ask_High", bar.High) >= trade.stop_loss

TouchesTarget(trade, bar) ==
    IF trade.signal = "Long"
    THEN Get(bar, "Bid_High", bar.High) >= trade.take_profit
    ELSE Get(bar, "Ask_Low", bar.Low) <= trade.take_profit

\* C1: at the end of every time step, current_equity = initial_equity + the
\* pnl of all closed trades + the unrealized pnl of the open trades at the
\* step's closing bid (long) or ask (short).
C1_EquityIdentityAtStepEnd ==
    StepEnded =>
        current_equity =
            RAdd(initial_equity,
                 RAdd(RealizedPnl(closed_trades),
                      UnrealizedPnl(open_positions, current_prices)))

\* C2: when candidates of time t are sized, every stop/target exit of bar t
\* has been applied: no trade opened before t whose stop or target bar t
\* reaches is still open; and no trade is closed by the bar it was opened on.
C2_ExitsBeforeEntries ==
    /\ pc = "signals" =>
          \A i \in DOMAIN open_positions :
             LET p == open_positions[i] IN
             (p.entry_time < current_time /\ p.symbol \in DOMAIN current_prices)
                => /\ ~TouchesStop(p, current_prices[p.symbol])
                   /\ ~TouchesTarget(p, current_prices[p.symbol])
    /\ \A i \in DOMAIN closed_trades :
          closed_trades[i].exit_time > closed_trades[i].entry_time

\* C2 witness: a trade was closed at t and a candidate of t was admitted into
\* the slot it freed (the book is at its concurrency limit again)
C2_Witness ==
    /\ CandidateSized
    /\ RGt(units, RZero)
    /\ Len(open_positions) = max_concurrent_pos
    /\ \E i \in DOMAIN closed_trades : closed_trades[i].exit_time = current_time
    /\ \A i \in DOMAIN open_positions :
          open_positions[i].entry_time = current_time

\* the correlation rule as the claim words it
ClaimCorrelated(trade, cand) ==
    \/ trade.symbol = cand.Symbol
    \/ LET coefficient == Get(Get(CORRELATION_MATRIX, cand.Symbol, <<>>),
                              trade.symbol, RZero)
       IN  /\ RGe(RAbs(coefficient), correlation_threshold)
           /\ \/ RGt(coefficient, RZero) /\ trade.signal = cand.Signal
              \/ RLt(coefficient, RZero) /\ trade.signal # cand.Signal

ClaimCorrelatedWith(cand) ==
    SelectSeq(open_positions, LAMBDA t : ClaimCorrelated(t, cand))

CandidateRisk(cand) ==
    get_risk_percentage(cand.Tier_Score, circuit_breaker_active, RiskConfig)

CorrelationBreached(cand) ==
    \/ Len(ClaimCorrelatedWith(cand)) >= max_correlated_pos
    \/ RGt(RAdd(SumRisk(ClaimCorrelatedWith(cand)), CandidateRisk(cand)),
           max_correlated_risk)

\* C3: size_candidate returns 0 whenever the open positions correlated with
\* the candidate number at least max_correlated_positions, or their summed
\* risk plus the candidate's risk fraction exceeds max_correlated_exposure.
C3_CorrelationCapRejects ==
    [][ (pc = "signals" /\ sig_idx' = sig_idx + 1
         /\ CorrelationBreached(all_signals[sig_idx + 1]))
        => units' = RZero ]_vars

\* C3 witness: a candidate correlated with a still-open trade of another
\* instrument was rejected on the risk cap alone (below the concurrency and
\* the count limits)
C3_Witness ==
    /\ CandidateSized
    /\ units = RZero
    /\ Len(open_positions) < max_concurrent_pos
    /\ Len(ClaimCorrelatedWith(LastCandidate)) < max_correlated_pos
    /\ \E i \in DOMAIN open_positions :
          /\ ClaimCorrelated(open_positions[i], LastCandidate)
          /\ open_positions[i].symbol # LastCandidate.Symbol
    /\ RGt(RAdd(SumRisk(ClaimCorrelatedWith(LastCandidate)),
                CandidateRisk(LastCandidate)),
           max_correlated_risk)

DrawdownReached ==
    RGe(RDiv(RSub(high_water_mark, current_equity), high_water_mark),
        circuit_breaker_dd)

\* C4: the breaker is set whenever (hwm - equity)/hwm >= the threshold, and
\* once set it is cleared only by a mark-to-market whose recomputed equity
\* strictly exceeds the previous high-water mark.
C4_BreakerSetAndHeld ==
    /\ [](DrawdownReached => circuit_breaker_active)
    /\ [][ (circuit_breaker_active /\ ~circuit_breaker_active')
           => (pc = "mtm" /\ RGt(current_equity', high_water_mark)) ]_vars

\* C4 witness: the breaker is still set at a later mark-to-market at which
\* the drawdown has shrunk below the threshold
C4_Witness ==
    /\ pc = "exits"
    /\ circuit_breaker_active
    /\ ~DrawdownReached
    /\ RLt(current_equity, high_water_mark)

\* C5: the number of open positions never exceeds max_concurrent_positions,
\* and a position is added only when the count is strictly below the limit.
C5_ConcurrencyCap ==
    /\ [](Len(open_positions) <= max_concurrent_pos)
    /\ [][ Len(open_positions') > Len(open_positions)
           => Len(open_positions) < max_concurrent_pos ]_vars

\* C5 witness: a candidate was turned away with the book at the limit
C5_Witness ==
    /\ CandidateSized
    /\ units = RZero
    /\ Len(open_positions) = max_concurrent_pos

\* C6: a rejected candidate leaves the portfolio state as it was.
C6_RejectionLeavesState ==
    [][ (pc = "signals" /\ sig_idx' = sig_idx + 1 /\ RLe(units', RZero))
        => UNCHANGED <<open_positions, closed_trades, current_equity,
                       high_water_mark, circuit_breaker_active,
                       trade_id_counter>> ]_vars

\* C6 witness: a candidate was rejected while a trade was open
C6_Witness ==
    /\ CandidateSized
    /\ RLe(units, RZero)
    /\ open_positions # <<>>
    /\ trade_id_counter < sig_idx

\* C9: the size size_candidate computes is never negative.
C9_SizeNeverNegative == RGe(units, RZero)

---------------------------------------------------------------------------
(* Properties of the risk engine (SpecRisk) *)

Returned(fn) == pc = "returned" /\ args.fn = fn

\* the configuration get_risk_percentage works with
EffectiveRiskConfig(cfg) ==
    [ base_risk_pct |->
          IF "base_risk_pct" \in DOMAIN cfg THEN cfg.base_risk_pct
          ELSE <<1, 100>>,
      tier_1_threshold |->
          IF "tier_1_threshold" \in DOMAIN cfg THEN cfg.tier_1_threshold
          ELSE 85,
      tier_2_threshold |->
          IF "tier_2_threshold" \in DOMAIN cfg THEN cfg.tier_2_threshold
          ELSE 65,
      tier_2_modifier |->
          IF "tier_2_modifier" \in DOMAIN cfg THEN cfg.tier_2_modifier
          ELSE <<1, 2>>,
      circuit_breaker_modifier |->
          IF "circuit_breaker_modifier" \in DOMAIN cfg
          THEN cfg.circuit_breaker_modifier ELSE <<1, 2>> ]

\* C7: get_risk_percentage returns base risk at or above the tier-1
\* threshold, base risk times the tier-2 modifier between the thresholds and
\* 0 below, base risk being multiplied by the breaker modifier exactly when
\* the breaker is active; with the defaults 90 gives 0.01, 70 gives 0.005,
\* 50 gives 0, and the non-zero values are halved under an active breaker.
C7_RiskTiers ==
    Returned("get_risk_percentage") =>
        LET c     == EffectiveRiskConfig(args.risk_config)
            score == args.tier_score
            base  == IF args.circuit_breaker_active
                     THEN RMul(c.base_risk_pct, c.circuit_breaker_modifier)
                     ELSE c.base_risk_pct
        IN  /\ score >= c.tier_1_threshold => result = base
            /\ (c.tier_2_threshold <= score /\ score < c.tier_1_threshold)
                  => result = RMul(base, c.tier_2_modifier)
            /\ (score < c.tier_2_threshold /\ score < c.tier_1_threshold)
                  => result = RZero
            /\ IsNone(args.risk_config) =>
                  /\ (score = 90 /\ ~args.circuit_breaker_active)
                        => result = <<1, 100>>
                  /\ (score = 70 /\ ~args.circuit_breaker_active)
                        => result = <<1, 200>>
                  /\ score = 50 => result = RZero
                  /\ (score = 90 /\ args.circuit_breaker_active)
                        => result = <<1, 200>>
                  /\ (score = 70 /\ args.circuit_breaker_active)
                        => result = <<1, 400>>

\* C7 witness: a tier-2 score under an active breaker with the defaults
C7_Witness ==
    /\ Returned("get_risk_percentage")
    /\ IsNone(args.risk_config)
    /\ args.tier_score = 70
    /\ args.circuit_breaker_active
    /\ result = <<1, 400>>

\* C8: calculate_position_size returns 0 for every stop distance <= 0 and
\* otherwise a size whose product with the stop distance is equity * risk;
\* equity 10000, risk 0.01, stop distance 2.0 gives 50.
C8_PositionSize ==
    Returned("calculate_position_size") =>
        /\ RLe(args.stop_loss_distance, RZero) => result = RZero
        /\ RGt(args.stop_loss_distance, RZero) =>
              RMul(result, args.stop_loss_distance)
                 = RMul(args.equity, args.risk_percentage)
        /\ (args.equity = R(10000) /\ args.risk_percentage = <<1, 100>>
            /\ args.stop_loss_distance = R(2)) => result = R(50)

\* C8 witness: the call of the test, answered with 50
C8_Witness ==
    /\ Returned("calculate_position_size")
    /\ args.equity = R(10000)
    /\ args.risk_percentage = <<1, 100>>
    /\ args.stop_loss_distance = R(2)
    /\ result = R(50)

---------------------------------------------------------------------------
(* Properties of the two exit rules (SpecSingle) *)

BothTriggered(trade, row) == TouchesStop(trade, row) /\ TouchesTarget(trade, row)

\* C10: when one bar reaches both the stop and the target of an open trade,
\* TradeManager.update and process_market_update both close it at the stop,
\* as a loss.
C10_StopBeforeTarget ==
    /\ \A i \in DOMAIN tm_closed_trades :
          LET c == tm_closed_trades[i] IN
          (c.exit_time = current_time /\ BothTriggered(c, bar_row))
             => /\ c.result = "Loss"
                /\ c.exit_price =
                      IF c.signal = "Long"
                      THEN RSub(R(c.stop_loss), c.slippage_exit)
                      ELSE RAdd(R(c.stop_loss), c.slippage_exit)
    /\ \A i \in DOMAIN closed_trades :
          LET c == closed_trades[i] IN
          (c.exit_time = current_time /\ BothTriggered(c, bar_row))
             => /\ c.result = "Loss"
                /\ c.exit_price = c.stop_loss

\* C10 witness: both simulators have closed a trade on a bar that reached
\* its stop and its target
C10_Witness ==
    /\ \E i \in DOMAIN tm_closed_trades :
          /\ tm_closed_trades[i].exit_time = current_time
          /\ BothTriggered(tm_closed_trades[i], bar_row)
    /\ \E i \in DOMAIN closed_trades :
          /\ closed_trades[i].exit_time = current_time
          /\ BothTriggered(closed_trades[i], bar_row)


---------------------------------------------------------------------------
(* Properties of TradeManager.update (SpecSingle) *)

\* the closed trade of the given id in a ledger, as a set of at most one
ClosedWithId(ledger, id) == { ledger[j] : j \in { k \in DOMAIN ledger : ledger[k].id = id } }

OpenIds(trades) == { trades[j].id : j \in DOMAIN trades }

\* the fill the claim names for a trade that a bar closes: the stop moved
\* against the trade by the bar's slippage, or the target itself
ClaimFill(trade, row) ==
    LET slip == calculate_slippage(Get(row, "ATR", trade.atr), DefaultMinTick)
    IN  IF TouchesStop(trade, row)
        THEN IF trade.signal = "Long" THEN RSub(R(trade.stop_loss), slip)
             ELSE RAdd(R(trade.stop_loss), slip)
        ELSE R(trade.take_profit)

ClaimPnl(trade, exit) ==
    IF trade.signal = "Long"
    THEN RMul(RSub(exit, trade.entry_price), trade.risk_units)
    ELSE RMul(RSub(trade.entry_price, exit), trade.risk_units)

\* C11: on a bar later than its entry bar, TradeManager.update closes a
\* long at stop_loss - slippage iff the bid low is at or below the stop,
\* else at take_profit iff the bid high is at or above the target (a short
\* mirrored on the ask), else leaves it open; the recorded pnl is
\* (exit - entry) * units for a long, (entry - exit) * units for a short.
C11_TradeManagerExit ==
    [][ TMUpdate =>
        \A i \in DOMAIN active_trades :
           LET trade == active_trades[i]
               hit   == TouchesStop(trade, bar_row) \/ TouchesTarget(trade, bar_row)
               done  == ClosedWithId(tm_closed_trades', trade.id)
           IN  bar_row.name > trade.entry_time =>
                 IF hit
                 THEN /\ trade.id \notin OpenIds(active_trades')
                      /\ Cardinality(done) = 1
                      /\ \A c \in done :
                            /\ c.exit_price = ClaimFill(trade, bar_row)
                            /\ c.pnl = ClaimPnl(trade, ClaimFill(trade, bar_row))
                            /\ c.exit_time = bar_row.name
                 ELSE /\ trade.id \in OpenIds(active_trades')
                      /\ done = {} ]_vars

\* C11 witness: one update has closed a long at its stop less a positive
\* slippage, and the ledger also holds a trade closed at its target
C11_Witness ==
    /\ pc = "pm_update"
    /\ \E i \in DOMAIN tm_closed_trades :
          LET c == tm_closed_trades[i] IN
          /\ c.exit_time = current_time
          /\ c.signal = "Long"
          /\ c.result = "Loss"
          /\ RGt(c.slippage_exit, RZero)
          /\ c.exit_price = RSub(R(c.stop_loss), c.slippage_exit)
    /\ \E i \in DOMAIN tm_closed_trades :
          /\ tm_closed_trades[i].result = "Win"
          /\ tm_closed_trades[i].exit_price = R(tm_closed_trades[i].take_profit)

---------------------------------------------------------------------------
(* The two exit rules side by side (SpecSingle) *)

\* the portfolio's trade and the trade manager's trade opened from the same
\* candidate
SameCandidate(p, m) == p.entry_time = m.entry_time

\* the pnl of the portfolio's trade p had it been filled at the price exit
PortfolioPnlAt(p, exit) ==
    IF p.signal = "Long"
    THEN RMul(RSub(exit, R(p.entry_price)), p.units)
    ELSE RMul(RSub(R(p.entry_price), exit), p.units)

\* C12: for the same trade and the same bar, process_market_update and
\* TradeManager.update reach the same decision, the same exit fill price
\* and the same pnl.
C12_SameExitOutcome ==
    pc = "add" =>
      /\ \A i \in DOMAIN open_positions : \A j \in DOMAIN tm_closed_trades :
            ~SameCandidate(open_positions[i], tm_closed_trades[j])
      /\ \A i \in DOMAIN closed_trades : \A j \in DOMAIN active_trades :
            ~SameCandidate(closed_trades[i], active_trades[j])
      /\ \A i \in DOMAIN closed_trades : \A j \in DOMAIN tm_closed_trades :
            LET p == closed_trades[i]
                m == tm_closed_trades[j]
            IN  SameCandidate(p, m) =>
                  /\ p.exit_time = m.exit_time
                  /\ (p.result = "Win") = (m.result = "Win")
                  /\ R(p.exit_price) = m.exit_price
                  /\ p.pnl = PortfolioPnlAt(p, m.exit_price)


---------------------------------------------------------------------------
(* The order in which candidates reach admission (Spec) *)

\* the position of an instrument in the configuration: the candidates of
\* one timestamp are generated in this order
GenerationRank(sym) == CHOOSE i \in DOMAIN instruments : instruments[i] = sym

\* the candidates offered so far are the first sig_idx of all_signals
CandidateKey(c) == <<c.Symbol, c.Timestamp>>

\* C19: every candidate is offered to admission exactly once, at the time
\* step of its own timestamp; candidates are offered in non-decreasing
\* timestamp order, those of one timestamp in generation order; and when
\* the timeline ends no candidate is left unprocessed.
C19_CandidatesOfferedInOrder ==
    /\ [](/\ \A i, j \in DOMAIN all_signals :
               i < j =>
                 \/ all_signals[i].Timestamp < all_signals[j].Timestamp
                 \/ /\ all_signals[i].Timestamp = all_signals[j].Timestamp
                    /\ GenerationRank(all_signals[i].Symbol)
                         < GenerationRank(all_signals[j].Symbol)
          /\ sig_idx <= Len(all_signals)
          /\ \A i \in DOMAIN all_signals :
               i > sig_idx => all_signals[i].Timestamp >= current_time
          /\ (pc \in {"snapshot", "done"}) => sig_idx = Len(all_signals))
    /\ [][ /\ sig_idx' \in {sig_idx, sig_idx + 1}
           /\ sig_idx' = sig_idx + 1 =>
                /\ pc = "signals"
                /\ all_signals[sig_idx'].Timestamp = current_time
           /\ \A i \in 1 .. sig_idx :
                /\ i \in DOMAIN all_signals'
                /\ CandidateKey(all_signals'[i]) = CandidateKey(all_signals[i])
         ]_vars

\* C19 witness: the timeline has ended after two candidates of two
\* timestamps were offered, the later one generated by the earlier
\* instrument (so the sort had to move it)
C19_Witness ==
    /\ pc = "done"
    /\ sig_idx = 2
    /\ all_signals[1].Timestamp < all_signals[2].Timestamp
    /\ GenerationRank(all_signals[1].Symbol) > GenerationRank(all_signals[2].Symbol)

---------------------------------------------------------------------------
(* The life of a trade in both simulators (SpecSingle, Spec) *)

\* the trades of a simulator: each id it has issued is in exactly one of
\* its two lists, open with status Open or closed with a result
OneListEach(open, closed, counter) ==
    /\ \A i, j \in DOMAIN open : open[i].id = open[j].id => i = j
    /\ \A i, j \in DOMAIN closed : closed[i].id = closed[j].id => i = j
    /\ OpenIds(open) \cap OpenIds(closed) = {}
    /\ OpenIds(open) \cup OpenIds(closed) = 1 .. counter
    /\ \A i \in DOMAIN open : open[i].status = "Open"
    /\ \A i \in DOMAIN closed :
          /\ closed[i].status = "Closed"
          /\ closed[i].result \in {"Win", "Loss"}
          /\ closed[i].exit_time > closed[i].entry_time

\* a step keeps every closed trade as it is and closes only open trades,
\* at the current time
ClosedForGood(open, closed, closedNext, now) ==
    /\ Len(closedNext) >= Len(closed)
    /\ \A i \in DOMAIN closed : closedNext[i] = closed[i]
    /\ \A i \in DOMAIN closedNext :
          i > Len(closed) =>
             /\ closedNext[i].id \in OpenIds(open)
             /\ closedNext[i].exit_time = now

\* C20: in both simulators every trade is at all times in exactly one of
\* the open list (status Open) and the closed list (status Closed, result
\* Win or Loss); a trade is closed at most once, in one step, and a closed
\* trade is never reopened or modified afterwards.
C20_TradeLifecycle ==
    /\ [](/\ OneListEach(open_positions, closed_trades, trade_id_counter)
          /\ OneListEach(active_trades, tm_closed_trades, tm_trade_id_counter))
    /\ [][ /\ ClosedForGood(open_positions, closed_trades, closed_trades',
                            current_time')
           /\ ClosedForGood(active_trades, tm_closed_trades, tm_closed_trades',
                            current_time') ]_vars

\* C20 witness: each simulator holds a closed trade and an open one, the
\* closed one having been closed in an earlier step
C20_Witness ==
    /\ closed_trades # <<>> /\ open_positions # <<>>
    /\ tm_closed_trades # <<>> /\ active_trades # <<>>
    /\ closed_trades[1].exit_time < current_time
    /\ tm_closed_trades[1].exit_time < current_time

----------------------------------------------------------------------------
(* Properties of the functions called on their own (SpecStructure) *)

\* C13: the SwingHigh and SwingLow that find_swings_adaptive gives at a bar
\* depend only on the bars up to it: on the series cut after bar i it gives
\* the same SwingHigh and SwingLow at every bar up to i as on the whole
\* series.
C13_SwingsUseNoLaterBar ==
    Returned("find_swings_adaptive") =>
        /\ Len(result.truncated) = args.i + 1
        /\ \A k \in 1 .. args.i + 1 : result.truncated[k] = result.whole[k]

\* a swing high and a swing low are confirmed at bar i, and a later bar of
\* the whole series goes above the one and another below the other
C13_Witness ==
    /\ Returned("find_swings_adaptive")
    /\ ~IsNaN(At(result.whole, args.i).SwingHigh)
    /\ ~IsNaN(At(result.whole, args.i).SwingLow)
    /\ \E k \in args.i + 2 .. Len(args.df) :
          RLt(At(result.whole, args.i).SwingHigh, R(args.df[k].High))
    /\ \E k \in args.i + 2 .. Len(args.df) :
          RLt(R(args.df[k].Low), At(result.whole, args.i).SwingLow)

----------------------------------------------------------------------------
(* Properties of the signal engine (SpecStrategy) *)

\* the loop has just handled bar i (0-based) of the frame
BarDone(i) == pc = "loop" /\ loop_i = i + 1 /\ i >= WarmupBars

\* run_strategy with the arguments of the call, on the frame cut after bar i
TruncatedRun(i) ==
    run_strategy(SubSeq(args.df, 1, i + 1), args.account_equity,
                 args.htf_bias, args.config, args.start_hour)

ZoneFlags == {"OB_Bullish", "OB_Bearish", "FVG_Bullish", "FVG_Bearish"}

\* C14: in run_strategy the order blocks and fair value gaps visible at bar
\* i depend only on the bars up to i: once the loop has handled bar i, the
\* OB and FVG flags of the bars up to i, the four registries, and the
\* Near_POI flag and the score of bar i are those that the run on the frame
\* cut after bar i has.
C14_ZonesUseNoLaterBar ==
    \A i \in WarmupBars .. Len(strategy_df) - 1 :
        BarDone(i) =>
            LET cut == TruncatedRun(i) IN
            /\ \A k \in 1 .. i + 1 : \A f \in ZoneFlags :
                  strategy_df[k][f] = cut.df[k][f]
            /\ active_bull_obs = cut.st.active_bull_obs
            /\ active_bear_obs = cut.st.active_bear_obs
            /\ active_bull_fvgs = cut.st.active_bull_fvgs
            /\ active_bear_fvgs = cut.st.active_bear_fvgs
            /\ At(results, i).Near_POI = At(cut.st.results, i).Near_POI
            /\ At(results, i).Tier_Score = At(cut.st.results, i).Tier_Score

\* C15: calculate_atr(df, period) is NaN at each of the first `period` bars
\* (indices 0 .. period - 1) and is defined and non-negative at every later
\* bar.
C15_AtrUndefinedOnFirstPeriodBars ==
    Returned("calculate_atr") =>
        \A i \in 0 .. Len(args.df) - 1 :
            IF i <= args.period - 1
            THEN IsNaN(At(result, i))
            ELSE ~IsNaN(At(result, i)) /\ RGe(At(result, i), RZero)

\* the gap between bar i and bar i - 2 (0-based, i >= 2) is at least
\* threshold * ATR[i]; a comparison with an undefined ATR fails
GapAtLeastMinSize(gap, i) ==
    FGe(R(gap), FMul(At(AtrColumn(args.df), i), args.atr_threshold_multiplier))

BullGap(i) == At(args.df, i).Low - At(args.df, i - 2).High

BearGap(i) == At(args.df, i - 2).Low - At(args.df, i).High

\* C16 as stated: detect_fvg flags bar i as a bullish FVG if and only if
\* low[i] - high[i-2] >= threshold * ATR[i] and candle i-1 closed above its
\* open, and as a bearish FVG if and only if low[i-2] - high[i] >=
\* threshold * ATR[i] and candle i-1 closed below its open.
C16_FvgIffGapAtLeastMinSize ==
    Returned("detect_fvg") =>
        \A i \in 2 .. Len(args.df) - 1 :
            /\ At(result, i).FVG_Bullish <=>
                  /\ GapAtLeastMinSize(BullGap(i), i)
                  /\ At(args.df, i - 1).Close > At(args.df, i - 1).Open
            /\ At(result, i).FVG_Bearish <=>
                  /\ GapAtLeastMinSize(BearGap(i), i)
                  /\ At(args.df, i - 1).Close < At(args.df, i - 1).Open

\* C16, amended: detect_fvg flags bar i as a bullish FVG if and only if
\* low[i] - high[i-2] is positive and >= threshold * ATR[i] and candle i-1
\* closed above its open, and as a bearish FVG if and only if
\* low[i-2] - high[i] is positive and >= threshold * ATR[i] and candle i-1
\* closed below its open; the first two bars are never flagged.
C16_FvgIffPositiveGapAtLeastMinSize ==
    Returned("detect_fvg") =>
        /\ \A i \in 2 .. Len(args.df) - 1 :
            /\ At(result, i).FVG_Bullish <=>
                  /\ BullGap(i) > 0
                  /\ GapAtLeastMinSize(BullGap(i), i)
                  /\ At(args.df, i - 1).Close > At(args.df, i - 1).Open
            /\ At(result, i).FVG_Bearish <=>
                  /\ BearGap(i) > 0
                  /\ GapAtLeastMinSize(BearGap(i), i)
                  /\ At(args.df, i - 1).Close < At(args.df, i - 1).Open
        /\ \A i \in 0 .. Min2(1, Len(args.df) - 1) :
              ~At(result, i).FVG_Bullish /\ ~At(result, i).FVG_Bearish

\* the example of the claim: low[2] - high[0] = 2, ATR 1, a green candle at
\* index 1, and index 2 is flagged bullish
C16_Witness ==
    /\ Returned("detect_fvg")
    /\ args.df = WithAtr(fvg_test_data, R(1))
    /\ args.atr_threshold_multiplier = <<1, 2>>
    /\ BullGap(2) = 2
    /\ At(result, 2).FVG_Bullish
    /\ ~At(result, 2).FVG_Bearish

\* C17: for every candidate row, HTF bias and scoring configuration, the
\* total returned by calculate_confluence_score lies in [0, 100].
C17_ScoreWithinBounds ==
    Returned("calculate_confluence_score") =>
        0 <= result.score /\ result.score <= 100

\* C18: run_strategy emits no candidate on a bar whose ATR, choppiness index
\* or ADX is undefined.
C18_NoCandidateOnUndefinedIndicators ==
    \A k \in DOMAIN results :
        results[k].Signal # "None" =>
            /\ ~IsNaN(strategy_df[k].ATR)
            /\ ~IsNaN(strategy_df[k].Chop)
            /\ ~IsNaN(strategy_df[k].ADX)

\* C21: calculate_slippage(atr, min_tick) equals max(0.1 * atr, min_tick)
\* for every ATR value, so the slippage is never below min_tick.
C21_SlippageAtLeastMinTick ==
    Returned("calculate_slippage") =>
        /\ result = RMax(RMul(<<1, 10>>, R(args.atr)), args.min_tick)
        /\ RGe(result, args.min_tick)

----------------------------------------------------------------------------
(* Setups, candidates and zones of the signal engine (SpecStrategy) *)

\* the regime filter let bar i through, so its setup test was evaluated
Evaluated(i) ==
    LET score_cfg == Get(args.config, "scoring", <<>>)
    IN  ~regime_skip(At(strategy_df, i),
                     Get(score_cfg, "chop_regime_threshold", <<309, 5>>),
                     Get(score_cfg, "adx_regime_threshold", R(20)))

ChochRequired == Get(Get(args.config, "smc", <<>>), "choch_required", TRUE)

SweepWithin(column, i) ==
    \E j \in 0 .. i : i - j <= SweepLookback /\ At(strategy_df, j)[column]

ShortSetup(i) ==
    /\ At(strategy_df, i).Displacement_Bearish
    /\ At(strategy_df, i).MSS_Bearish \/ ~ChochRequired
    /\ SweepWithin("Sweep_Bearish", i)

LongSetup(i) ==
    /\ At(strategy_df, i).Displacement_Bullish
    /\ At(strategy_df, i).MSS_Bullish \/ ~ChochRequired
    /\ SweepWithin("Sweep_Bullish", i)

SetupOf(i) ==
    setup_direction(strategy_df, Get(args.config, "smc", <<>>), i)

CandidateGeometry(k) ==
    LET row == strategy_df[k]
        cand == results[k]
        entry == cand.Entry_Price
        stop == cand.Stop_Loss
        target == cand.Take_Profit
    IN  /\ ~IsNaN(stop) /\ ~IsNaN(target)
        /\ entry = R(row.Close)
        /\ cand.Signal = "Long" =>
              /\ stop = RSub(R(row.Low), RMul(<<3, 2>>, row.ATR))
              /\ RLt(stop, entry)
              /\ target = RAdd(entry, RMul(R(3), RSub(entry, stop)))
        /\ cand.Signal = "Short" =>
              /\ stop = RAdd(R(row.High), RMul(<<3, 2>>, row.ATR))
              /\ RGt(stop, entry)
              /\ target = RSub(entry, RMul(R(3), RSub(stop, entry)))
        /\ RGt(RAbs(RSub(entry, stop)), RZero)
        /\ RAbs(RSub(target, entry)) = RMul(R(3), RAbs(RSub(entry, stop)))

Touches(i, zone) ==
    /\ FLe(R(At(strategy_df, i).Low), zone.top)
    /\ FGe(R(At(strategy_df, i).High), zone.bottom)

\* the order blocks and gaps that are active once bar i is handled, of the
\* direction of a candidate
ActiveZones(direction) ==
    IF direction = "Long"
    THEN { active_bull_obs[k] : k \in DOMAIN active_bull_obs }
         \cup { active_bull_fvgs[k] : k \in DOMAIN active_bull_fvgs }
    ELSE { active_bear_obs[k] : k \in DOMAIN active_bear_obs }
         \cup { active_bear_fvgs[k] : k \in DOMAIN active_bear_fvgs }

\* C24: a candidate is flagged Near_POI iff the range of its bar touches at
\* least one order block or fair value gap that is active at that bar and
\* of the direction of the candidate: bullish zones for a Long, bearish
\* zones for a Short.
C24_NearPoiIffOwnZoneTouched ==
    \A i \in WarmupBars .. Len(strategy_df) - 1 :
        (BarDone(i) /\ At(results, i).Signal # "None") =>
            (At(results, i).Near_POI <=>
                \E zone \in ActiveZones(At(results, i).Signal) :
                    Touches(i, zone))

\* the sweep rules of bar k of the frame of the call, tolerance included
BearishSweepRule(k) ==
    LET level == args.swings_df[k].SwingHigh
        close == R(args.df[k].Close)
        threshold == FAdd(level, FMul(args.sweep_atr_tolerance, args.df[k].ATR))
    IN  \/ FGt(R(args.df[k].High), level) /\ FLe(close, threshold)
        \/ FGt(R(args.df[k - 1].Close), level) /\ FLt(close, level)

BullishSweepRule(k) ==
    LET level == args.swings_df[k].SwingLow
        close == R(args.df[k].Close)
        threshold == FSub(level, FMul(args.sweep_atr_tolerance, args.df[k].ATR))
    IN  \/ FLt(R(args.df[k].Low), level) /\ FGe(close, threshold)
        \/ FLt(R(args.df[k - 1].Close), level) /\ FGt(close, level)

\* C25: detect_liquidity_sweeps flags bar i bearish iff high[i] is above
\* the active SwingHigh and close[i] is at most SwingHigh + tolerance *
\* ATR[i], or close[i-1] is above SwingHigh and close[i] below it; it flags
\* bar i bullish iff low[i] is below the active SwingLow and close[i] is at
\* least SwingLow - tolerance * ATR[i], or close[i-1] is below SwingLow and
\* close[i] above it.
C25_SweepIffWithinTolerance ==
    Returned("detect_liquidity_sweeps") =>
        \A k \in 2 .. Len(args.df) :
            /\ result[k].Sweep_Bearish <=> BearishSweepRule(k)
            /\ result[k].Sweep_Bullish <=> BullishSweepRule(k)

\* the lookback of bar i of the call, floored at 2
SwingLookback(i) ==
    LET L == At(lookback_values(args.lookback_series), i)
    IN  IF L < 2 THEN 2 ELSE L

\* bar i - L is the extreme of the full window of 2L + 1 bars that ends
\* with bar i
FullWindowHigh(i, L) ==
    /\ i - 2 * L >= 0
    /\ \A j \in i - 2 * L .. i : At(args.df, j).High <= At(args.df, i - L).High

FullWindowLow(i, L) ==
    /\ i - 2 * L >= 0
    /\ \A j \in i - 2 * L .. i : At(args.df, j).Low >= At(args.df, i - L).Low

\* the levels active before bar i: undefined before the first bar
LevelsBefore(i) ==
    IF i = 0 THEN [SwingHigh |-> NaN, SwingLow |-> NaN]
    ELSE At(result.whole, i - 1)

\* C26: in find_swings_adaptive, at bar i with lookback L (floored at 2),
\* the active SwingHigh becomes high[i - L] iff that bar is the maximum high
\* of the full symmetric window [i - 2L, i], and is carried forward
\* otherwise; SwingLow likewise with the minimum low; no level is confirmed
\* from a window shorter than 2L + 1 bars.
C26_SwingConfirmedOnFullWindowOnly ==
    Returned("find_swings_adaptive") =>
        \A i \in 0 .. Len(args.df) - 1 :
            LET L == SwingLookback(i) IN
            /\ At(result.whole, i).SwingHigh =
                  IF FullWindowHigh(i, L) THEN R(At(args.df, i - L).High)
                  ELSE LevelsBefore(i).SwingHigh
            /\ At(result.whole, i).SwingLow =
                  IF FullWindowLow(i, L) THEN R(At(args.df, i - L).Low)
                  ELSE LevelsBefore(i).SwingLow

\* the band of the order block, and of the gap, that bar i carries
ObZone(i) ==
    [top |-> R(At(strategy_df, i).High), bottom |-> R(At(strategy_df, i).Low)]

FvgZone(i) ==
    [top |-> At(strategy_df, i).FVG_Top,
     bottom |-> At(strategy_df, i).FVG_Bottom]

\* the registry with the zone of bar i added when the bar carries one
WithZone(registry, flag, zone, i) ==
    IF At(strategy_df, i)[flag] THEN Append(registry, zone) ELSE registry

ClosesBelow(i, zone) == RLt(R(At(strategy_df, i).Close), zone.bottom)

ClosesAbove(i, zone) == RGt(R(At(strategy_df, i).Close), zone.top)

\* the loop handles bar loop_i, a bar past the warm-up
BarProcessed == pc = "loop" /\ loop_i >= WarmupBars /\ loop_i' = loop_i + 1

\* C27: on every bar that run_strategy's loop processes, the bars skipped by
\* the regime filter included, a bullish order block or gap leaves its
\* registry iff the bar closes below its bottom and a bearish one iff the
\* bar closes above its top; the zones left are those that were active (or
\* arrive with this bar) in their order, so that a removed zone never comes
\* back.
C27_ZoneRemovedIffClosedThrough ==
    [][BarProcessed =>
          LET i == loop_i IN
          /\ active_bull_obs' =
                SelectSeq(WithZone(active_bull_obs, "OB_Bullish", ObZone(i), i),
                          LAMBDA z : ~ClosesBelow(i, z))
          /\ active_bull_fvgs' =
                SelectSeq(WithZone(active_bull_fvgs, "FVG_Bullish",
                                   FvgZone(i), i),
                          LAMBDA z : ~ClosesBelow(i, z))
          /\ active_bear_obs' =
                SelectSeq(WithZone(active_bear_obs, "OB_Bearish", ObZone(i), i),
                          LAMBDA z : ~ClosesAbove(i, z))
          /\ active_bear_fvgs' =
                SelectSeq(WithZone(active_bear_fvgs, "FVG_Bearish",
                                   FvgZone(i), i),
                          LAMBDA z : ~ClosesAbove(i, z))]_vars

\* the regime filter has skipped bar i, which closed above a bearish gap of
\* an earlier bar that had entered the registry, and the gap is gone
C27_Witness ==
    \E i \in WarmupBars .. Len(strategy_df) - 1 :
        /\ BarDone(i)
        /\ ~Evaluated(i)
        /\ \E j \in WarmupBars .. i - 1 :
              /\ At(strategy_df, j).FVG_Bearish
              /\ ~ClosesAbove(j, FvgZone(j))
              /\ ClosesAbove(i, FvgZone(j))
              /\ \A k \in DOMAIN active_bear_fvgs :
                    active_bear_fvgs[k] # FvgZone(j)

----------------------------------------------------------------------------
(* Correlation limits of the PortfolioManager (SpecBook) *)

\* the open positions that check_correlation_constraint counts as correlated
\* with the open position p, p itself among them
CorrelatedWith(p) == Correlated(open_positions, p.symbol, p.signal)

\* C28: after any sequence of admissions and exits, for every open position
\* p the risk_pct_account of the open positions correlated with p (p
\* included, by the rule of check_correlation_constraint) adds up to at most
\* max_correlated_exposure.
C28_CorrelatedRiskWithinCap ==
    \A i \in DOMAIN open_positions :
        RLe(SumRisk(CorrelatedWith(open_positions[i])), max_correlated_risk)

\* a position of the instrument and direction counts as correlated with a
\* candidate of new_symbol and new_direction
CorrelatedPair(symbol, direction, new_symbol, new_direction) ==
    is_correlated([symbol |-> symbol, signal |-> direction],
                  new_symbol, new_direction)

\* C29: the correlation relation used for admission is symmetric: an open
\* position counts as correlated with a candidate iff a position of the
\* candidate's instrument and direction would count as correlated with a
\* candidate of the position's, for every pair of instruments and
\* directions and every correlation_threshold.
C29_CorrelationSymmetric ==
    \A i \in DOMAIN open_positions :
        \A new_symbol \in DOMAIN CORRELATION_MATRIX :
            \A new_direction \in {"Long", "Short"} :
                LET p == open_positions[i] IN
                CorrelatedPair(p.symbol, p.signal, new_symbol, new_direction)
                    <=> CorrelatedPair(new_symbol, new_direction,
                                       p.symbol, p.signal)

\* the amount a trade puts at risk: its size times its stop distance
RiskAmount(trade) ==
    RMul(trade.units, R(Abs(trade.entry_price - trade.stop_loss)))

\* the step admits a trade: execute_trade appends it to open_positions
TradeAdmitted ==
    /\ trade_id_counter' = trade_id_counter + 1
    /\ Len(open_positions') = Len(open_positions) + 1

\* the outcome of a closed trade: minus the amount at risk at its stop, three
\* times that at its target, and a Win exactly at the target
ExitOutcome(trade) ==
    /\ trade.exit_price = trade.stop_loss =>
          trade.pnl = RNeg(RiskAmount(trade))
    /\ trade.exit_price = trade.take_profit =>
          trade.pnl = RMul(R(3), RiskAmount(trade))
    /\ trade.exit_price \in {trade.stop_loss, trade.take_profit}
    /\ trade.result = "Win" <=> trade.exit_price = trade.take_profit

\* C30: a trade that the PortfolioManager admits from a run_strategy
\* candidate puts risk_pct_account * (the equity at its admission) at risk;
\* its stop exit realizes minus that amount and its target exit three times
\* that amount, exactly; a portfolio trade is labelled Win iff it left at
\* its target.
C30_ExitRealizesRiskMultiple ==
    /\ [][TradeAdmitted =>
             LET trade == open_positions'[Len(open_positions')] IN
             RiskAmount(trade) = RMul(trade.risk_pct_account, current_equity)]_vars
    /\ [](\A i \in DOMAIN closed_trades : ExitOutcome(closed_trades[i]))

\* one trade has left at its stop and another at its target, one of them
\* admitted on an equity other than the initial one
C30_Witness ==
    /\ \E i \in DOMAIN closed_trades :
          closed_trades[i].exit_price = closed_trades[i].stop_loss
    /\ \E i \in DOMAIN closed_trades :
          closed_trades[i].exit_price = closed_trades[i].take_profit
    /\ \E i \in DOMAIN closed_trades :
          RiskAmount(closed_trades[i]) #
              RMul(closed_trades[i].risk_pct_account, initial_equity)

=============================================================================
